---- MODULE Spec2Model ----
(***************************************************************************)
(* elm-land-lsp: the parse service (elm-ast bridge over a worker), the AST *)
(* cache, the document store and the JSON-RPC router of the server.        *)
(***************************************************************************)
EXTENDS Integers, Sequences, FiniteSets, TLC

\* ------------------------------------------------------------------ bounds
MaxCalls == 4
NumSources == 2
MaxVersion == 2
MaxCacheOps == 2
NumUris == 1
NumIds == 1
MaxWrites == 4
MaxText == 1
MaxFrames == 2
MaxTicks == 7
MaxErrors == 2
MaxSeconds == 7
NumFolders == 2

\* Source texts; source 0 stands for a text with a syntax error.
Sources == 0..NumSources
Versions == 1..MaxVersion

\* ----------------------------------------------------------------- values
\* undefined / null, and a promise not yet resolved; tuples, as ASTs are
None == <<"none">>
Pending == <<"pending">>

VARIABLES
    \* parse service (elm-ast bridge)
    state,        \* WorkerState: idle, or busy with a resolver and a queue
    workerAlive,  \* whether the Worker created by initWorker still runs
    inbox,        \* sources posted to the worker and not yet processed by it
    chan,         \* events from the worker to the main thread, in order
    calls,        \* one record per parse() call: its source and its promise
    posted,       \* every source handed to worker.postMessage, in order
    \* AST cache
    entries,      \* CacheEntry[], least recently used first
    lastUse,      \* per URI, the time of its entry's last successful get or set
    nops,         \* number of cache calls made
    lastOp,       \* the last cache call and what it returned
    \* server
    initialized,     \* server.ts: let initialized
    shuttingDown,    \* server.ts: let shuttingDown
    exitCode,        \* the code the process exited with, Running before
    docs,            \* documentStore.docs: URI -> Document
    lastGoodSymbols, \* document-symbol: URI -> symbols of the last good parse
    debounceTimers,  \* diagnostics: the URIs with a debounce timer armed
    cur,             \* the message the router handled last
    sent,            \* what was written to stdout while handling it
    taken,           \* the AST its handler took from the AST cache, if any
    \* router (message loop of startServer)
    stdin,           \* messages the client wrote, not yet read, in order
    handling,        \* the handlers that have started and not finished
    written,         \* number of messages the client has written
    done,            \* number of handlers that have finished
    clientDocs,      \* the documents as the client's notifications left them
    clientInit,      \* whether the client has written initialize
    observed,        \* what the handler that finished last saw of the store
    \* transport
    framed,          \* the frames the client sends, in order
    wire,            \* their bytes not yet returned by reader.read()
    buffer,          \* startServer: buffer
    drained,         \* the values tryParse has returned, in order
    reads,           \* reader.read() calls that returned bytes: 0, 1, more
    \* diagnostics
    now,             \* the time, in ms
    timeouts,          \* the timeouts set and neither fired nor cleared
    lastCall,        \* per URI, the time of the last runDiagnostics call
    runs,            \* the runDiagnosticsNow calls made, in order
    inFlight,         \* the runs that have not returned, as indices of runs
    lastRun,         \* the run that returned last and what it sent
    published,       \* per URI, the run that published last for it as its saved URI
    \* workspace symbols
    cachedSymbols,        \* workspace-symbol.ts: cachedSymbols
    cachedProjectFolder,  \* workspace-symbol.ts: cachedProjectFolder
    invalidations,        \* the due times of the 5 s timeouts not yet fired
    lastSearch,           \* the last getAllSymbols call and what it returned
    \* references
    elmFile,         \* the file the client has open, as it is written
    cursor,          \* the position of the references request
    withDeclaration, \* context.includeDeclaration of the request
    allLocations,    \* what findReferences returned
    searched,        \* whether the request has been answered
    sourceDirectories, \* elm.json: source-directories, resolved
    workspaceEdit    \* what doRename returned, once a rename was asked for

parseVars == <<state, workerAlive, inbox, chan, calls, posted>>
cacheVars == <<entries, lastUse, nops, lastOp>>
cacheGhost == <<lastUse, nops, lastOp>>
serverVars == <<initialized, shuttingDown, exitCode, docs, lastGoodSymbols,
                debounceTimers, cur, sent, taken>>
routerVars == <<stdin, handling, written, done, clientDocs, clientInit, observed>>
transportVars == <<framed, wire, buffer, drained, reads>>
diagVars == <<now, timeouts, lastCall, runs, inFlight, lastRun, published>>
wsVars == <<cachedSymbols, cachedProjectFolder, invalidations, lastSearch>>
refVars == <<elmFile, cursor, withDeclaration, allLocations, searched,
            sourceDirectories, workspaceEdit>>
moreVars == <<routerVars, transportVars, diagVars, wsVars, refVars>>
vars == <<parseVars, cacheVars, serverVars, moreVars>>

\* ------------------------------------------------------- the parse backend
\* The Elm parser behind the worker: every source but 0 parses to its own AST.
AstOf(s) == <<"ast", s>>

ElmParse(s) ==
    IF s = 0 THEN [kind |-> "failure", ast |-> None, of |-> s]
             ELSE [kind |-> "success", ast |-> AstOf(s), of |-> s]

ErrorEvent == [kind |-> "error", ast |-> None, of |-> -1]

\* ------------------------------------------------------- the parse service
Idle == [tag |-> "idle"]

Busy(resolve, queue) == [tag |-> "busy", resolve |-> resolve, queue |-> queue]

\* resolve(value) of the promise of call c; `why` records which branch did it
Resolve(cs, c, value, why) ==
    [cs EXCEPT ![c] = [@ EXCEPT !.result = value, !.how = why]]

RECURSIVE ResolveAll(_, _, _, _)
ResolveAll(cs, items, value, why) ==
    IF items = <<>> THEN cs
    ELSE ResolveAll(Resolve(cs, Head(items).resolve, value, why),
                    Tail(items), value, why)

\* worker.postMessage(source): a terminated worker drops the message
PostMessage(s) ==
    /\ posted' = Append(posted, s)
    /\ inbox' = IF workerAlive THEN Append(inbox, s) ELSE inbox

ParseInit ==
    /\ state = Idle
    /\ workerAlive = TRUE
    /\ inbox = <<>>
    /\ chan = <<>>
    /\ calls = <<>>
    /\ posted = <<>>

\* parse that posts its source whatever the state is
ParseEager(s) ==
    /\ Len(calls) < MaxCalls
    /\ LET c == Len(calls) + 1
           cs == Append(calls, [source |-> s, result |-> Pending, how |-> "pending"])
       IN /\ calls' = cs
          /\ state' = Busy(c, <<>>)
          /\ PostMessage(s)
    /\ UNCHANGED <<workerAlive, chan, cacheVars, serverVars, moreVars>>

\* parse(source)
Parse(s) ==
    /\ Len(calls) < MaxCalls
    /\ LET c == Len(calls) + 1
           cs == Append(calls, [source |-> s, result |-> Pending, how |-> "pending"])
       IN /\ calls' = cs
          /\ IF state.tag = "idle"
             THEN /\ state' = Busy(c, <<>>)
                  /\ PostMessage(s)
             ELSE /\ state' = [state EXCEPT
                                 !.queue = Append(@, [source |-> s, resolve |-> c])]
                  /\ UNCHANGED <<posted, inbox>>
    /\ UNCHANGED <<workerAlive, chan, cacheVars, serverVars, moreVars>>

\* the worker's self.onmessage: the Elm app answers through one of its ports
WorkerAnswer ==
    /\ workerAlive
    /\ inbox # <<>>
    /\ chan' = Append(chan, ElmParse(Head(inbox)))
    /\ inbox' = Tail(inbox)
    /\ UNCHANGED <<state, workerAlive, calls, posted, cacheVars, serverVars, moreVars>>

\* an uncaught exception while the worker handles a source: no answer is
\* posted for it, the parent gets an error event, the worker goes on
WorkerThrow ==
    /\ workerAlive
    /\ inbox # <<>>
    /\ chan' = Append(chan, ErrorEvent)
    /\ inbox' = Tail(inbox)
    /\ UNCHANGED <<state, workerAlive, calls, posted, cacheVars, serverVars, moreVars>>

\* the worker terminates (a crash, a failed start-up): the parent gets an
\* error event and whatever was posted to the worker is lost
WorkerCrash ==
    /\ workerAlive
    /\ workerAlive' = FALSE
    /\ chan' = Append(chan, ErrorEvent)
    /\ inbox' = <<>>
    /\ UNCHANGED <<state, calls, posted, cacheVars, serverVars, moreVars>>

\* OnMessageBusy with the queue served first-in first-out
OnMessageBusyFifo(msg) ==
    LET resolve == state.resolve
        queue == state.queue
        answered == Resolve(calls, resolve,
                            IF msg.kind = "success" THEN msg.ast ELSE None,
                            "answer")
    IN IF Len(queue) > 0
       THEN LET next == queue[1]
            IN /\ calls' = ResolveAll(answered, Tail(queue), None, "discard")
               /\ state' = Busy(next.resolve, <<>>)
               /\ PostMessage(next.source)
       ELSE /\ calls' = answered
            /\ state' = Idle
            /\ UNCHANGED <<posted, inbox>>

\* OnMessageBusy that dispatches nothing from the queue
OnMessageBusyDropQueue(msg) ==
    /\ calls' = ResolveAll(Resolve(calls, state.resolve,
                                   IF msg.kind = "success" THEN msg.ast ELSE None,
                                   "answer"),
                           state.queue, None, "discard")
    /\ state' = Idle
    /\ UNCHANGED <<posted, inbox>>

\* OnMessageBusy that posts every queued source at once
OnMessageBusyPostAll(msg) ==
    LET resolve == state.resolve
        queue == state.queue
        answered == Resolve(calls, resolve,
                            IF msg.kind = "success" THEN msg.ast ELSE None,
                            "answer")
    IN IF Len(queue) > 0
       THEN LET next == queue[Len(queue)]
                sources == [i \in 1..Len(queue) |-> queue[i].source]
            IN /\ calls' = answered
               /\ state' = Busy(next.resolve, <<>>)
               /\ posted' = posted \o sources
               /\ inbox' = IF workerAlive THEN inbox \o sources ELSE inbox
       ELSE /\ calls' = answered
            /\ state' = Idle
            /\ UNCHANGED <<posted, inbox>>

\* worker.onmessage, from `const { resolve, queue } = state` on
OnMessageBusy(msg) ==
    LET resolve == state.resolve
        queue == state.queue
        answered == Resolve(calls, resolve,
                            IF msg.kind = "success" THEN msg.ast ELSE None,
                            "answer")
    IN IF Len(queue) > 0
       THEN LET next == queue[Len(queue)]
            IN /\ calls' = ResolveAll(answered, SubSeq(queue, 1, Len(queue) - 1),
                                      None, "discard")
               /\ state' = Busy(next.resolve, <<>>)
               /\ PostMessage(next.source)
       ELSE /\ calls' = answered
            /\ state' = Idle
            /\ UNCHANGED <<posted, inbox>>

\* worker.onmessage
OnMessage ==
    /\ chan # <<>>
    /\ Head(chan).kind # "error"
    /\ chan' = Tail(chan)
    /\ IF state.tag # "busy"
       THEN UNCHANGED <<state, calls, posted, inbox>>
       ELSE OnMessageBusy(Head(chan))
    /\ UNCHANGED <<workerAlive, cacheVars, serverVars, moreVars>>

\* OnErrorBusy that forgets the queued calls
OnErrorBusyInFlightOnly ==
    /\ calls' = Resolve(calls, state.resolve, None, "error")
    /\ state' = Idle

\* worker.onerror, the body of `if (state.tag === "busy")`
OnErrorBusy ==
    /\ calls' = ResolveAll(Resolve(calls, state.resolve, None, "error"),
                           state.queue, None, "error")
    /\ state' = Idle

\* worker.onerror
OnError ==
    /\ chan # <<>>
    /\ Head(chan).kind = "error"
    /\ chan' = Tail(chan)
    /\ IF state.tag = "busy"
       THEN OnErrorBusy
       ELSE UNCHANGED <<state, calls>>
    /\ UNCHANGED <<workerAlive, inbox, posted, cacheVars, serverVars, moreVars>>

ParseCall == \E s \in Sources : Parse(s)

\* ---------------------------------------------------------------- AST cache
MAX_SIZE == 50

\* URIs the cache is exercised with: enough to overflow it
CacheUris == 1..(MAX_SIZE + 2)

\* Array.prototype.findIndex / find: the first matching index, 0 for none
FirstIndex(hits) ==
    IF hits = {} THEN 0
    ELSE CHOOSE i \in hits : \A j \in hits : i <= j

\* entries.splice(idx, 1)
Splice(es, idx) == SubSeq(es, 1, idx - 1) \o SubSeq(es, idx + 1, Len(es))

\* getCachedAst that leaves the entry where it is
getCachedAstNoBump(es, uri, version) ==
    LET idx == FirstIndex({i \in 1..Len(es) :
                              es[i].uri = uri /\ es[i].version = version})
    IN IF idx # 0
       THEN [entries |-> es, ast |-> es[idx].ast]
       ELSE [entries |-> es, ast |-> None]

\* getCachedAst(uri, version): the entries afterwards and the value returned
getCachedAst(es, uri, version) ==
    LET idx == FirstIndex({i \in 1..Len(es) :
                              es[i].uri = uri /\ es[i].version = version})
    IN IF idx # 0
       THEN [entries |-> Append(Splice(es, idx), es[idx]), ast |-> es[idx].ast]
       ELSE [entries |-> es, ast |-> None]

\* setCachedAst that looks for the entry to replace by URI and version
setCachedAstSameVersion(es, uri, version, ast) ==
    LET idx == FirstIndex({i \in 1..Len(es) :
                              es[i].uri = uri /\ es[i].version = version})
        removed == IF idx # 0 THEN Splice(es, idx) ELSE es
        pushed == Append(removed, [uri |-> uri, version |-> version, ast |-> ast])
    IN IF Len(pushed) > MAX_SIZE THEN Tail(pushed) ELSE pushed

\* setCachedAst(uri, version, ast): the entries afterwards
setCachedAst(es, uri, version, ast) ==
    LET idx == FirstIndex({i \in 1..Len(es) : es[i].uri = uri})
        removed == IF idx # 0 THEN Splice(es, idx) ELSE es
        pushed == Append(removed, [uri |-> uri, version |-> version, ast |-> ast])
    IN IF Len(pushed) > MAX_SIZE THEN Tail(pushed) ELSE pushed

\* The cache after setCachedAst(u, 1, ast) for the URIs u = 1..n in this
\* order, n <= MAX_SIZE: each call finds no entry of its URI and pushes one
Prefill(n) ==
    [u \in 1..n |-> [uri |-> u, version |-> 1, ast |-> AstOf(1)]]

\* Fill levels the cache calls start from: empty, one below capacity, full
FillLevels == {0, MAX_SIZE - 1, MAX_SIZE}

\* URIs the cache calls are made with: the two oldest and two new ones
OpUris == {1, 2, MAX_SIZE + 1, MAX_SIZE + 2}

NoOp == [op |-> "none", uri |-> 0, version |-> 0, ast |-> None]

CacheInit ==
    /\ entries = <<>>
    /\ lastUse = [u \in CacheUris |-> 0]
    /\ nops = 0
    /\ lastOp = NoOp

CachePrefilled ==
    \E n \in FillLevels :
        /\ entries = Prefill(n)
        /\ lastUse = [u \in CacheUris |-> IF u <= n THEN u ELSE 0]
        /\ nops = 0
        /\ lastOp = NoOp

Now == MAX_SIZE + nops + 1

CacheGet(uri, version) ==
    /\ nops < MaxCacheOps
    /\ LET r == getCachedAst(entries, uri, version)
       IN /\ entries' = r.entries
          /\ lastUse' = IF r.ast # None THEN [lastUse EXCEPT ![uri] = Now]
                                        ELSE lastUse
          /\ lastOp' = [op |-> "get", uri |-> uri, version |-> version,
                        ast |-> r.ast]
    /\ nops' = nops + 1
    /\ UNCHANGED <<parseVars, serverVars, moreVars>>

CacheSet(uri, version, ast) ==
    /\ nops < MaxCacheOps
    /\ entries' = setCachedAst(entries, uri, version, ast)
    /\ lastUse' = [lastUse EXCEPT ![uri] = Now]
    /\ lastOp' = [op |-> "set", uri |-> uri, version |-> version, ast |-> ast]
    /\ nops' = nops + 1
    /\ UNCHANGED <<parseVars, serverVars, moreVars>>

CacheGetCall == \E u \in OpUris, v \in Versions : CacheGet(u, v)

CacheSetCall ==
    \E u \in OpUris, v \in Versions, s \in Sources \ {0} : CacheSet(u, v, AstOf(s))


\* ------------------------------------------------------------------- server
ServerNotInitialized == -32002
MethodNotFound == -32601
InternalError == -32603

Running == -1

\* URIs: 0 is the project's elm.json, the others are .elm documents
ElmJsonUri == 0
DocUris == 1..NumUris
Uris == {ElmJsonUri} \cup DocUris
Ids == 1..NumIds
NoId == 0
NoMethod == "(none)"
NoText == -1

\* the methods handleRequest serves after initialize
FeatureMethods ==
    {"textDocument/hover", "textDocument/completion", "textDocument/formatting",
     "textDocument/documentSymbol", "textDocument/definition",
     "textDocument/prepareRename", "textDocument/rename",
     "textDocument/references", "workspace/symbol"}

\* hover, definition, references, rename and prepareRename (through
\* findReferences) load the AST of the document the same way
AstMethods ==
    {"textDocument/hover", "textDocument/definition", "textDocument/prepareRename",
     "textDocument/rename", "textDocument/references"}

ServedMethods == {"initialize", "shutdown"} \cup FeatureMethods

NotificationMethods ==
    {"exit", "initialized", "textDocument/didOpen", "textDocument/didChange",
     "textDocument/didClose", "textDocument/didSave"}

DocMethods ==
    {"textDocument/didOpen", "textDocument/didChange", "textDocument/didClose",
     "textDocument/didSave"}

Methods == ServedMethods \cup NotificationMethods \cup {"$/cancelRequest"}

\* sendResponse, sendError, sendNotification
Response(id, result) ==
    [kind |-> "response", id |-> id, result |-> result, code |-> 0, method |-> NoMethod]

ErrorResponse(id, code) ==
    [kind |-> "error", id |-> id, result |-> None, code |-> code, method |-> NoMethod]

Notification(method) ==
    [kind |-> "notification", id |-> NoId, result |-> None, code |-> 0, method |-> method]

\* isRequest, isNotification
isRequest(msg) == msg.id # NoId /\ msg.method # NoMethod

isNotification(msg) == msg.id = NoId /\ msg.method # NoMethod

NoTaken == [uri |-> -1, ast |-> None]

\* the state a handler works on, and what it leaves behind
Server ==
    [initialized |-> initialized, shuttingDown |-> shuttingDown,
     exitCode |-> exitCode, docs |-> docs, entries |-> entries,
     lastGoodSymbols |-> lastGoodSymbols, debounceTimers |-> debounceTimers,
     sent |-> <<>>, taken |-> NoTaken, threw |-> FALSE]

Send(s, m) == [s EXCEPT !.sent = Append(@, m)]

Throw(s) == [s EXCEPT !.threw = TRUE]

\* DocumentStore.open / change / close
StoreOpen(ds, uri, text, version) ==
    [u \in DOMAIN ds \cup {uri} |->
        IF u = uri THEN [text |-> text, version |-> version] ELSE ds[u]]

StoreChange(ds, uri, text, version) ==
    [u \in DOMAIN ds \cup {uri} |->
        IF u = uri THEN [text |-> text, version |-> version] ELSE ds[u]]

StoreClose(ds, uri) == [u \in DOMAIN ds \ {uri} |-> ds[u]]

\* runDiagnostics(uri): the pending timer of the URI is replaced by a new one
runDiagnostics(timers, uri) == timers \cup {uri}

\* the value of `await parse(doc.text)`: none when the backend failed
Parsed(text, backendOk) == IF backendOk THEN ElmParse(text).ast ELSE None

\* The first lines of getDefinition, getHover, findReferences and
\* getDocumentSymbols for an open document: look the AST up in the cache,
\* parse on a miss, cache what was parsed. `ast` is the AST the handler uses.
LoadAst(s, uri, backendOk) ==
    LET doc == s.docs[uri]
        got == getCachedAst(s.entries, uri, doc.version)
        cached == got.ast
        ast == IF cached # None THEN cached ELSE Parsed(doc.text, backendOk)
        looked == [s EXCEPT !.entries = got.entries,
                            !.taken = IF cached # None
                                      THEN [uri |-> uri, ast |-> cached]
                                      ELSE NoTaken]
    IN [ast |-> ast,
        s |-> IF ast # None /\ cached = None
              THEN [looked EXCEPT
                      !.entries = setCachedAst(got.entries, uri, doc.version, ast)]
              ELSE looked]

\* what a feature computes from an AST
ResultOf(ast) == <<"result", ast>>

SymbolsOf(ast) == <<"symbols", ast>>

\* Finish that returns without a response when there is nothing to report
FinishSilent(s, id, value, rest) ==
    CASE rest = "throw" -> Throw(s)
      [] rest = "result" -> Send(s, Response(id, value))
      [] OTHER -> s

\* the rest of a feature handler: a result, null, or an exception
Finish(s, id, value, rest) ==
    CASE rest = "throw" -> Throw(s)
      [] rest = "result" -> Send(s, Response(id, value))
      [] OTHER -> Send(s, Response(id, None))

\* getHover, getDefinition, findReferences, doRename, prepareRename
AstFeature(s, msg, backendOk, rest) ==
    IF msg.uri \notin DOMAIN s.docs THEN Send(s, Response(msg.id, None))
    ELSE LET l == LoadAst(s, msg.uri, backendOk)
         IN IF l.ast = None THEN Send(l.s, Response(msg.id, None))
            ELSE Finish(l.s, msg.id, ResultOf(l.ast), rest)

\* getDocumentSymbols
getDocumentSymbols(s, msg, backendOk) ==
    IF msg.uri \notin DOMAIN s.docs THEN Send(s, Response(msg.id, None))
    ELSE LET l == LoadAst(s, msg.uri, backendOk)
         IN IF l.ast = None
            THEN Send(l.s, Response(msg.id, l.s.lastGoodSymbols[msg.uri]))
            ELSE Send([l.s EXCEPT !.lastGoodSymbols[msg.uri] = SymbolsOf(l.ast)],
                      Response(msg.id, SymbolsOf(l.ast)))

\* getCompletions
getCompletions(s, msg, rest) ==
    IF msg.uri \notin DOMAIN s.docs THEN Send(s, Response(msg.id, None))
    ELSE Finish(s, msg.id, ResultOf(AstOf(s.docs[msg.uri].text)), rest)

\* formatDocument: a missing elm-format is reported before the null result
formatDocument(s, msg, rest) ==
    IF msg.uri \notin DOMAIN s.docs THEN Send(s, Response(msg.id, None))
    ELSE IF rest = "notfound"
         THEN Send(Send(s, Notification("window/showMessage")),
                   Response(msg.id, None))
         ELSE Finish(s, msg.id, ResultOf(AstOf(s.docs[msg.uri].text)), rest)

\* getWorkspaceSymbols: the symbols of the files on disk
getWorkspaceSymbols(s, msg, rest) ==
    Finish(s, msg.id, ResultOf(None), rest)

\* handleRequest without the check of `initialized`
handleRequestNoInitCheck(s, msg, backendOk, rest) ==
    IF msg.method = "initialize"
    THEN LET s1 == [s EXCEPT !.initialized = TRUE]
         IN IF msg.bad THEN Throw(s1)
            ELSE Send(s1, Response(msg.id, ResultOf(None)))
    ELSE IF msg.method = "shutdown"
    THEN Send([s EXCEPT !.shuttingDown = TRUE], Response(msg.id, None))
    ELSE IF msg.method \in FeatureMethods
    THEN IF msg.bad THEN Throw(s)
         ELSE IF msg.method \in AstMethods THEN AstFeature(s, msg, backendOk, rest)
         ELSE IF msg.method = "textDocument/documentSymbol"
              THEN getDocumentSymbols(s, msg, backendOk)
         ELSE IF msg.method = "textDocument/completion"
              THEN getCompletions(s, msg, rest)
         ELSE IF msg.method = "textDocument/formatting"
              THEN formatDocument(s, msg, rest)
         ELSE getWorkspaceSymbols(s, msg, rest)
    ELSE Send(s, ErrorResponse(msg.id, MethodNotFound))

\* handleRequest
handleRequest(s, msg, backendOk, rest) ==
    IF msg.method = "initialize"
    THEN LET s1 == [s EXCEPT !.initialized = TRUE]
         IN IF msg.bad THEN Throw(s1)
            ELSE Send(s1, Response(msg.id, ResultOf(None)))
    ELSE IF ~s.initialized
    THEN Send(s, ErrorResponse(msg.id, ServerNotInitialized))
    ELSE IF msg.method = "shutdown"
    THEN Send([s EXCEPT !.shuttingDown = TRUE], Response(msg.id, None))
    ELSE IF msg.method \in FeatureMethods
    THEN IF msg.bad THEN Throw(s)
         ELSE IF msg.method \in AstMethods THEN AstFeature(s, msg, backendOk, rest)
         ELSE IF msg.method = "textDocument/documentSymbol"
              THEN getDocumentSymbols(s, msg, backendOk)
         ELSE IF msg.method = "textDocument/completion"
              THEN getCompletions(s, msg, rest)
         ELSE IF msg.method = "textDocument/formatting"
              THEN formatDocument(s, msg, rest)
         ELSE getWorkspaceSymbols(s, msg, rest)
    ELSE Send(s, ErrorResponse(msg.id, MethodNotFound))

\* the didSave case: elm.json saved re-runs the diagnostics of the open
\* .elm documents
DidSave(s, uri) ==
    LET own == runDiagnostics(s.debounceTimers, uri)
    IN [s EXCEPT !.debounceTimers =
            IF uri = ElmJsonUri
            THEN own \cup {u \in DOMAIN s.docs : u # ElmJsonUri}
            ELSE own]

\* handleNotification after the exit case
handleNotificationRest(s, msg) ==
    IF ~s.initialized THEN s
    ELSE IF msg.method = "textDocument/didOpen"
    THEN IF msg.bad THEN Throw(s)
         ELSE [s EXCEPT
                 !.docs = StoreOpen(@, msg.uri, msg.text, msg.version),
                 !.debounceTimers = runDiagnostics(@, msg.uri)]
    ELSE IF msg.method = "textDocument/didChange"
    THEN IF msg.bad THEN Throw(s)
         ELSE IF msg.text = NoText THEN s
         ELSE [s EXCEPT !.docs = StoreChange(@, msg.uri, msg.text, msg.version)]
    ELSE IF msg.method = "textDocument/didClose"
    THEN IF msg.bad THEN Throw(s)
         ELSE [s EXCEPT !.docs = StoreClose(@, msg.uri)]
    ELSE IF msg.method = "textDocument/didSave"
    THEN IF msg.bad THEN Throw(s) ELSE DidSave(s, msg.uri)
    ELSE s

\* handleNotification with exit looked at after the check of `initialized`
handleNotificationExitLate(s, msg) ==
    IF msg.method = "exit" /\ s.initialized
    THEN [s EXCEPT !.exitCode = IF s.shuttingDown THEN 0 ELSE 1]
    ELSE handleNotificationRest(s, msg)

\* handleNotification
handleNotification(s, msg) ==
    IF msg.method = "exit"
    THEN [s EXCEPT !.exitCode = IF s.shuttingDown THEN 0 ELSE 1]
    ELSE handleNotificationRest(s, msg)

\* a router without the catch: the rejection ends the process
CaughtNot(s, msg) ==
    IF s.threw THEN [s EXCEPT !.exitCode = 1] ELSE s

\* startServer, the catch block
Caught(s, msg) ==
    IF s.threw /\ isRequest(msg)
    THEN Send(s, ErrorResponse(msg.id, InternalError))
    ELSE s

\* startServer, the body of the message loop
Route(s, msg, backendOk, rest) ==
    IF isRequest(msg) THEN Caught(handleRequest(s, msg, backendOk, rest), msg)
    ELSE IF isNotification(msg) THEN Caught(handleNotification(s, msg), msg)
    ELSE s

ServerInit ==
    /\ initialized = FALSE
    /\ shuttingDown = FALSE
    /\ exitCode = Running
    /\ docs = [u \in {} |-> None]
    /\ lastGoodSymbols = [u \in Uris |-> None]
    /\ debounceTimers = {}
    /\ cur = [id |-> NoId, method |-> NoMethod, uri |-> ElmJsonUri,
            text |-> NoText, version |-> 1, threw |-> FALSE]
    /\ sent = <<>>
    /\ taken = NoTaken

\* the effect of one turn of the message loop of startServer on message msg
Handle(msg, backendOk, rest) ==
    /\ exitCode = Running
    /\ \E s \in {Route(Server, msg, backendOk, rest)} :
          /\ initialized' = s.initialized
          /\ shuttingDown' = s.shuttingDown
          /\ exitCode' = s.exitCode
          /\ docs' = s.docs
          /\ entries' = s.entries
          /\ lastGoodSymbols' = s.lastGoodSymbols
          /\ debounceTimers' = s.debounceTimers
          /\ sent' = s.sent
          /\ taken' = s.taken
          /\ cur' = [id |-> msg.id, method |-> msg.method, uri |-> msg.uri,
                     text |-> msg.text, version |-> msg.version,
                     threw |-> s.threw]
    /\ UNCHANGED <<parseVars, cacheGhost>>

\* one turn of the message loop on a message read as soon as it is written
Dispatch(msg, backendOk, rest) ==
    /\ Handle(msg, backendOk, rest)
    /\ UNCHANGED moreVars

\* reader.read() returns done: process.exit(0)
StdinEnd ==
    /\ exitCode = Running
    /\ exitCode' = 0
    /\ cur' = [id |-> NoId, method |-> NoMethod, uri |-> ElmJsonUri,
            text |-> NoText, version |-> 1, threw |-> FALSE]
    /\ sent' = <<>>
    /\ taken' = NoTaken
    /\ UNCHANGED <<initialized, shuttingDown, docs, lastGoodSymbols,
                   debounceTimers, parseVars, cacheVars, moreVars>>

Rests == {"result", "null", "throw", "notfound"}

Message(id, method, uri, text, version, bad) ==
    [id |-> id, method |-> method, uri |-> uri, text |-> text,
     version |-> version, bad |-> bad]

\* a request that is no feature request: initialize, shutdown, a method the
\* server does not serve
Request ==
    \E id \in Ids, method \in Methods \ FeatureMethods, bad \in BOOLEAN :
        Dispatch(Message(id, method, ElmJsonUri, NoText, 1, bad), TRUE, "null")

\* a feature request; with malformed params nothing else matters
FeatureRequest ==
    \E id \in Ids, method \in FeatureMethods, uri \in DocUris, bad \in BOOLEAN,
       backendOk \in BOOLEAN, rest \in Rests :
        /\ bad => (backendOk /\ rest = "null")
        /\ Dispatch(Message(id, method, uri, NoText, 1, bad), backendOk, rest)

\* a notification that is about no document: exit, initialized, a method
\* the server does not know
ClientNotification ==
    \E method \in Methods \ DocMethods :
        Dispatch(Message(NoId, method, ElmJsonUri, NoText, 1, FALSE), TRUE, "null")

DidOpen(uri, text, version, bad) ==
    Dispatch(Message(NoId, "textDocument/didOpen", uri, text, version, bad),
             TRUE, "null")

DidChange(uri, text, version, bad) ==
    Dispatch(Message(NoId, "textDocument/didChange", uri, text, version, bad),
             TRUE, "null")

DidClose(uri, bad) ==
    Dispatch(Message(NoId, "textDocument/didClose", uri, NoText, 1, bad),
             TRUE, "null")

DidSaveNotification(uri, bad) ==
    Dispatch(Message(NoId, "textDocument/didSave", uri, NoText, 1, bad),
             TRUE, "null")

\* document notifications of any client
AnyDidOpen ==
    \E uri \in DocUris, text \in Sources, version \in Versions, bad \in BOOLEAN :
        DidOpen(uri, text, version, bad)

AnyDidChange ==
    \E uri \in DocUris, text \in Sources \cup {NoText}, version \in Versions,
       bad \in BOOLEAN :
        DidChange(uri, text, version, bad)

AnyDidClose == \E uri \in DocUris, bad \in BOOLEAN : DidClose(uri, bad)

AnyDidSave == \E uri \in Uris, bad \in BOOLEAN : DidSaveNotification(uri, bad)

\* document notifications of a client that keeps to the protocol: a document
\* is opened when closed, changed with a higher version and closed when open
LspDidOpen ==
    \E uri \in DocUris, text \in Sources, version \in Versions :
        /\ uri \notin DOMAIN docs
        /\ DidOpen(uri, text, version, FALSE)

LspDidChange ==
    \E uri \in DocUris, text \in Sources, version \in Versions :
        /\ uri \in DOMAIN docs
        /\ version > docs[uri].version
        /\ DidChange(uri, text, version, FALSE)

LspDidClose ==
    \E uri \in DocUris :
        /\ uri \in DOMAIN docs
        /\ DidClose(uri, FALSE)

\* a message without a method (a response of the client)
ClientResponse ==
    \E id \in Ids :
        Dispatch(Message(id, NoMethod, ElmJsonUri, NoText, 1, FALSE), TRUE, "null")

\* ---------------------------------------------------------------- transport
\* Strings are sequences of characters and buffers sequences of bytes; a
\* character or a byte is written as a short string. "CR" and "LF" are the
\* two line-end characters, "eacute" is a character outside ASCII, whose
\* UTF-8 form is the two bytes "c3" "a9".
HEADER_SEPARATOR == <<"CR", "LF", "CR", "LF">>

CONTENT_LENGTH == <<"C", "o", "n", "t", "e", "n", "t", "-", "L", "e", "n", "g", "t", "h", ":", " ">>

\* another header line a client may send, with its line end
CONTENT_TYPE == <<"C", "o", "n", "t", "e", "n", "t", "-", "T", "y", "p", "e", ":", " ", "u", "t", "f", "8", "CR", "LF">>

TextChars == {"a", "eacute", "LF"}

DigitChars == <<"0", "1", "2", "3", "4", "5", "6", "7", "8", "9">>

\* Buffer.from(string): UTF-8
RECURSIVE Utf8(_)
Utf8(chars) ==
    IF chars = <<>> THEN <<>>
    ELSE (IF Head(chars) = "eacute" THEN <<"c3", "a9">> ELSE <<Head(chars)>>)
         \o Utf8(Tail(chars))

\* Buffer.toString(): UTF-8 decoding; a broken sequence gives U+FFFD
RECURSIVE BufferToString(_)
BufferToString(bytes) ==
    IF bytes = <<>> THEN <<>>
    ELSE IF Head(bytes) = "c3"
         THEN IF Len(bytes) >= 2 /\ bytes[2] = "a9"
              THEN <<"eacute">> \o BufferToString(Tail(Tail(bytes)))
              ELSE <<"fffd">> \o BufferToString(Tail(bytes))
    ELSE IF Head(bytes) = "a9" THEN <<"fffd">> \o BufferToString(Tail(bytes))
    ELSE <<Head(bytes)>> \o BufferToString(Tail(bytes))

\* Buffer.byteLength(string)
ByteLength(chars) == Len(Utf8(chars))

\* `${n}`: the decimal digits of n
RECURSIVE ToDigits(_)
ToDigits(n) ==
    IF n < 10 THEN <<DigitChars[n + 1]>>
    ELSE ToDigits(n \div 10) \o <<DigitChars[(n % 10) + 1]>>

DigitValue(c) == CHOOSE d \in 0..9 : DigitChars[d + 1] = c

IsDigit(c) == \E d \in 0..9 : DigitChars[d + 1] = c

NaN == -1

\* parseInt(chars, 10) on text without sign or leading blanks: the number
\* written by the leading digits, NaN when there is none
RECURSIVE ParseDigits(_, _)
ParseDigits(chars, acc) ==
    IF chars = <<>> \/ ~IsDigit(Head(chars)) THEN acc
    ELSE ParseDigits(Tail(chars), 10 * acc + DigitValue(Head(chars)))

parseInt(chars) ==
    IF chars = <<>> \/ ~IsDigit(Head(chars)) THEN NaN ELSE ParseDigits(chars, 0)

\* A message is the JSON object {"t": text}; it is written here as its text.
JsonOpen == <<"{", "\"", "t", "\"", ":", "\"">>

JsonClose == <<"\"", "}">>

\* JSON.stringify: a line feed inside a string is written as \n
RECURSIVE Escape(_)
Escape(chars) ==
    IF chars = <<>> THEN <<>>
    ELSE (IF Head(chars) = "LF" THEN <<"\\", "n">> ELSE <<Head(chars)>>)
         \o Escape(Tail(chars))

RECURSIVE Unescape(_)
Unescape(chars) ==
    IF chars = <<>> THEN <<>>
    ELSE IF Head(chars) = "\\" /\ Len(chars) >= 2 /\ chars[2] = "n"
         THEN <<"LF">> \o Unescape(Tail(Tail(chars)))
    ELSE <<Head(chars)>> \o Unescape(Tail(chars))

JsonStringify(text) == JsonOpen \o Escape(text) \o JsonClose

SyntaxError == <<"SyntaxError">>

\* JSON.parse: the text of the object, SyntaxError for anything else
JsonParse(chars) ==
    LET n == Len(chars)
        no == Len(JsonOpen)
        nc == Len(JsonClose)
        inner == SubSeq(chars, no + 1, n - nc)
    IN IF /\ n >= no + nc
          /\ SubSeq(chars, 1, no) = JsonOpen
          /\ SubSeq(chars, n - nc + 1, n) = JsonClose
          /\ \A i \in 1..Len(inner) : inner[i] \notin {"\"", "LF", "CR", "fffd"}
       THEN Unescape(inner)
       ELSE SyntaxError

\* encode with the length of the body counted in characters
encodeCharLength(message) ==
    LET body == JsonStringify(message)
        header == CONTENT_LENGTH \o ToDigits(Len(body)) \o HEADER_SEPARATOR
    IN Utf8(header) \o Utf8(body)

\* encode
encode(message) ==
    LET body == JsonStringify(message)
        header == CONTENT_LENGTH \o ToDigits(ByteLength(body)) \o HEADER_SEPARATOR
    IN Utf8(header) \o Utf8(body)

NeedMore == [kind |-> "need-more", value |-> None, rest |-> <<>>]

ParsedMessage(value, rest) == [kind |-> "message", value |-> value, rest |-> rest]

\* buffer.indexOf(needle), -1 when the needle does not occur
IndexOf(buf, needle) ==
    LET at == {i \in 1..(Len(buf) - Len(needle) + 1) :
                  SubSeq(buf, i, i + Len(needle) - 1) = needle}
    IN IF at = {} THEN -1
       ELSE (CHOOSE i \in at : \A j \in at : i <= j) - 1

\* buffer.subarray(start, end): the bytes from index start up to, not
\* including, index end; both are clamped to the buffer
Subarray(buf, start, end) ==
    SubSeq(buf, (IF start > Len(buf) THEN Len(buf) ELSE start) + 1,
                IF end > Len(buf) THEN Len(buf) ELSE end)

\* string.startsWith
StartsWith(chars, prefix) ==
    Len(chars) >= Len(prefix) /\ SubSeq(chars, 1, Len(prefix)) = prefix

\* tryParse that does not wait for the whole body
tryParseNoLengthCheck(buf) ==
    LET headerEnd == IndexOf(buf, HEADER_SEPARATOR)
        header == BufferToString(Subarray(buf, 0, headerEnd))
        contentLength ==
            parseInt(SubSeq(header, Len(CONTENT_LENGTH) + 1, Len(header)))
        bodyStart == headerEnd + Len(HEADER_SEPARATOR)
        totalNeeded == bodyStart + contentLength
        body == BufferToString(Subarray(buf, bodyStart, totalNeeded))
        rest == Subarray(buf, totalNeeded, Len(buf))
    IN IF headerEnd = -1 THEN NeedMore
       ELSE IF ~StartsWith(header, CONTENT_LENGTH) THEN NeedMore
       ELSE IF contentLength = NaN THEN NeedMore
       ELSE ParsedMessage(JsonParse(body), rest)

\* tryParse
tryParse(buf) ==
    LET headerEnd == IndexOf(buf, HEADER_SEPARATOR)
        header == BufferToString(Subarray(buf, 0, headerEnd))
        contentLength ==
            parseInt(SubSeq(header, Len(CONTENT_LENGTH) + 1, Len(header)))
        bodyStart == headerEnd + Len(HEADER_SEPARATOR)
        totalNeeded == bodyStart + contentLength
        body == BufferToString(Subarray(buf, bodyStart, totalNeeded))
        rest == Subarray(buf, totalNeeded, Len(buf))
    IN IF headerEnd = -1 THEN NeedMore
       ELSE IF ~StartsWith(header, CONTENT_LENGTH) THEN NeedMore
       ELSE IF contentLength = NaN THEN NeedMore
       ELSE IF Len(buf) < totalNeeded THEN NeedMore
       ELSE ParsedMessage(JsonParse(body), rest)

\* the texts of the messages
RECURSIVE TextsOf(_)
TextsOf(n) ==
    IF n = 0 THEN {<<>>}
    ELSE TextsOf(n - 1) \cup
         {Append(t, c) : t \in {u \in TextsOf(n - 1) : Len(u) = n - 1}, c \in TextChars}

Texts == TextsOf(MaxText)

\* How a client frames a message: as encode does, with a Content-Type line
\* after the Content-Length line, or with it before.
Styles == {"encode", "lengthFirst", "typeFirst"}

Frame(message, style) ==
    LET body == JsonStringify(message)
        len == CONTENT_LENGTH \o ToDigits(ByteLength(body)) \o <<"CR", "LF">>
    IN CASE style = "encode" -> encode(message)
         [] style = "lengthFirst" ->
                Utf8(len \o CONTENT_TYPE \o <<"CR", "LF">>) \o Utf8(body)
         [] OTHER ->
                Utf8(CONTENT_TYPE \o len \o <<"CR", "LF">>) \o Utf8(body)

Frames == [message : Texts, style : Styles]

RECURSIVE Concat(_)
Concat(fs) ==
    IF fs = <<>> THEN <<>>
    ELSE Frame(Head(fs).message, Head(fs).style) \o Concat(Tail(fs))

TransportIdle ==
    /\ framed = <<>>
    /\ wire = <<>>
    /\ buffer = <<>>
    /\ drained = <<>>
    /\ reads = 0

\* the client sends a stream of one to MaxFrames frames
TransportInit ==
    /\ framed \in UNION {[1..n -> Frames] : n \in 1..MaxFrames}
    /\ wire = Concat(framed)
    /\ buffer = <<>>
    /\ drained = <<>>
    /\ reads = 0

\* startServer: reader.read() returns a chunk, which is appended to buffer
Read ==
    /\ wire # <<>>
    /\ tryParse(buffer).kind = "need-more"
    /\ \E k \in 1..Len(wire) :
          /\ buffer' = buffer \o SubSeq(wire, 1, k)
          /\ wire' = SubSeq(wire, k + 1, Len(wire))
    /\ reads' = IF reads < 2 THEN reads + 1 ELSE reads
    /\ UNCHANGED <<framed, drained, parseVars, cacheVars, serverVars, routerVars,
                   diagVars, wsVars, refVars>>

\* startServer: tryParse returns a message; the loop goes on with the rest.
\* The messages of this stream are neither requests nor notifications.
Drain ==
    /\ \E result \in {tryParse(buffer)} :
          /\ result.kind = "message"
          /\ drained' = Append(drained, result.value)
          /\ buffer' = result.rest
    /\ UNCHANGED <<framed, wire, reads, parseVars, cacheVars, serverVars, routerVars,
                   diagVars, wsVars, refVars>>

\* -------------------------------------------------------------- diagnostics
\* Time advances in steps of TickMs; a timeout that is due fires before time
\* advances again (the event loop is idle between the messages).
DEBOUNCE_MS == 300

TickMs == 100

Never == -1

\* The URIs diagnostics are run for: the .elm documents, and a second URI of
\* document 1 whose path goes through a symbolic link.
LinkedUri == NumUris + 1

DiagUris == DocUris \cup {LinkedUri}

\* fs.realpathSync, on URIs
Realpath(uri) == IF uri = LinkedUri THEN 1 ELSE uri

\* setTimeout(..., 300)
SetTimeout(ts, uri, t) == ts \cup {[uri |-> uri, due |-> t + DEBOUNCE_MS]}

\* clearTimeout(debounceTimers.get(uri))
ClearTimeout(ts, uri) == {tm \in ts : tm.uri # uri}

\* runDiagnostics that leaves the pending timeout alone
ScheduleNoClear(ts, uri, t) == SetTimeout(ts, uri, t)

\* runDiagnostics: the timeouts after the call
Schedule(ts, uri, t) == SetTimeout(ClearTimeout(ts, uri), uri, t)

\* The Map allDiagnostics, as the sequence of its entries in insertion order
MapHas(mp, key) == \E i \in 1..Len(mp) : mp[i].uri = key

MapSet(mp, key, val) ==
    IF MapHas(mp, key)
    THEN [i \in 1..Len(mp) |->
            IF mp[i].uri = key THEN [uri |-> key, diags |-> val] ELSE mp[i]]
    ELSE Append(mp, [uri |-> key, diags |-> val])

\* the diagnostics made from the problems of one file of the report, and
\* the one made from a report of type "error"
ProblemsOf(path) == <<"problems", path>>

GeneralError == <<"error">>

\* What the compiler wrote to stderr: nothing, text that is no JSON, a report
\* of type "error", or a report of type "compile-errors" with the paths of its
\* errors.
EmptyReport == [type |-> "empty", errors |-> <<>>]

Reports ==
    [type : {"empty", "nonJson", "error"}, errors : {<<>>}]
    \cup [type : {"compile-errors"},
          errors : UNION {[1..n -> DiagUris] : n \in 1..MaxErrors}]

\* the loop over report.errors
RECURSIVE CollectErrors(_, _)
CollectErrors(errors, mp) ==
    IF errors = <<>> THEN mp
    ELSE CollectErrors(Tail(errors),
                       MapSet(mp, Realpath(Head(errors)), ProblemsOf(Head(errors))))

FromReport(uri, report) ==
    CASE report.type = "compile-errors" -> CollectErrors(report.errors, <<>>)
      [] report.type = "error" -> MapSet(<<>>, uri, GeneralError)
      [] OTHER -> <<>>

\* allDiagnostics without the entry added for the saved URI
AllDiagnosticsAsReported(uri, report) == FromReport(uri, report)

\* allDiagnostics when the publishing loop starts
AllDiagnostics(uri, report) ==
    IF MapHas(FromReport(uri, report), uri) THEN FromReport(uri, report)
    ELSE MapSet(FromReport(uri, report), uri, <<>>)

\* runDiagnosticsNow: the publishDiagnostics notifications it sends
runDiagnosticsNow(uri, manifest, spawn, report) ==
    IF manifest /\ spawn = "ok" THEN AllDiagnostics(uri, report) ELSE <<>>

OutcomeOf(manifest, spawn) ==
    IF ~manifest THEN "noManifest"
    ELSE IF spawn = "ok" THEN "compiled"
    ELSE spawn

NoRun == [uri |-> 0, outcome |-> "none", report |-> EmptyReport, pubs |-> <<>>]


DiagInit ==
    /\ now = 0
    /\ timeouts = {}
    /\ lastCall = [u \in DiagUris |-> Never]
    /\ runs = <<>>
    /\ inFlight = {}
    /\ lastRun = NoRun
    /\ published = [u \in DiagUris |-> 0]

\* a call of runDiagnostics(uri), from didOpen or didSave
RunDiagnosticsCall ==
    \E uri \in DiagUris :
        /\ timeouts' = Schedule(timeouts, uri, now)
        /\ debounceTimers' = runDiagnostics(debounceTimers, uri)
        /\ lastCall' = [lastCall EXCEPT ![uri] = now]
        /\ UNCHANGED <<now, runs, inFlight, lastRun, published, parseVars, cacheVars,
                       initialized, shuttingDown, exitCode, docs, lastGoodSymbols,
                       cur, sent, taken, routerVars, transportVars, wsVars, refVars>>

\* the timeout fires: debounceTimers.delete(uri); runDiagnosticsNow(uri)
TimerFire ==
    \E tm \in timeouts :
        /\ tm.due <= now
        /\ timeouts' = timeouts \ {tm}
        /\ debounceTimers' = debounceTimers \ {tm.uri}
        /\ runs' = Append(runs, [uri |-> tm.uri, at |-> now,
                                 lastCall |-> lastCall[tm.uri]])
        /\ inFlight' = inFlight \cup {Len(runs) + 1}
        /\ UNCHANGED <<now, lastCall, lastRun, published, parseVars, cacheVars,
                       initialized, shuttingDown, exitCode, docs, lastGoodSymbols,
                       cur, sent, taken, routerVars, transportVars, wsVars, refVars>>

Tick ==
    /\ now < MaxTicks * TickMs
    /\ \A tm \in timeouts : tm.due > now
    /\ now' = now + TickMs
    /\ UNCHANGED <<timeouts, lastCall, runs, inFlight, lastRun, published, parseVars, cacheVars,
                   serverVars, routerVars, transportVars, wsVars, refVars>>

\* a run returns: no manifest, elm not found, another error of the spawn, or
\* the compiler call completed with a report
RunReturns ==
    \E run \in inFlight, manifest \in BOOLEAN, spawn \in {"ok", "enoent", "throws"},
       report \in Reports :
        /\ (~manifest \/ spawn # "ok") => report = EmptyReport
        /\ ~manifest => spawn = "ok"
        /\ inFlight' = inFlight \ {run}
        /\ lastRun' = [uri |-> runs[run].uri, outcome |-> OutcomeOf(manifest, spawn),
                       report |-> report,
                       pubs |-> runDiagnosticsNow(runs[run].uri, manifest, spawn,
                                                  report)]
        /\ published' = IF manifest /\ spawn = "ok"
                        THEN [published EXCEPT ![runs[run].uri] = run]
                        ELSE published
        /\ UNCHANGED <<now, timeouts, lastCall, runs, parseVars, cacheVars,
                       serverVars, routerVars, transportVars, wsVars, refVars>>

\* --------------------------------------------------------- workspace symbols
\* Here the clock advances in steps of SecondMs.
INVALIDATE_MS == 5000

SecondMs == 1000

\* project folders; 0 stands for null
Folders == 1..NumFolders

NoFolder == 0

\* cachedSymbols = null; a symbol list is written as the time it was built at
\* and the folder it was built from
NoSymbols == [builtAt |-> Never, folder |-> NoFolder]

NoSearch == [at |-> Never, from |-> "none", symbols |-> NoSymbols]

WsInit ==
    /\ cachedSymbols = NoSymbols
    /\ cachedProjectFolder = NoFolder
    /\ invalidations = {}
    /\ lastSearch = NoSearch

\* getAllSymbols that sets no timeout
ScheduleInvalidationNot(ts, t) == ts

\* setTimeout(() => { cachedSymbols = null; ... }, 5000)
ScheduleInvalidation(ts, t) == ts \cup {t + INVALIDATE_MS}

\* getAllSymbols for a workspace whose manifest is in `folder`
\* (NoFolder: no manifest found)
GetAllSymbols ==
    \E folder \in Folders \cup {NoFolder} :
        /\ IF folder = NoFolder
           THEN /\ lastSearch' = [at |-> now, from |-> "noManifest",
                                  symbols |-> NoSymbols]
                /\ UNCHANGED <<cachedSymbols, cachedProjectFolder, invalidations>>
           ELSE IF cachedProjectFolder = folder /\ cachedSymbols # NoSymbols
           THEN /\ lastSearch' = [at |-> now, from |-> "cache",
                                  symbols |-> cachedSymbols]
                /\ UNCHANGED <<cachedSymbols, cachedProjectFolder, invalidations>>
           ELSE /\ cachedSymbols' = [builtAt |-> now, folder |-> folder]
                /\ cachedProjectFolder' = folder
                /\ invalidations' = ScheduleInvalidation(invalidations, now)
                /\ lastSearch' = [at |-> now, from |-> "scan",
                                  symbols |-> [builtAt |-> now, folder |-> folder]]
        /\ UNCHANGED <<parseVars, cacheVars, serverVars, routerVars, transportVars,
                       diagVars, refVars>>

\* the timeout fires
InvalidateCache ==
    \E due \in invalidations :
        /\ due <= now
        /\ invalidations' = invalidations \ {due}
        /\ cachedSymbols' = NoSymbols
        /\ cachedProjectFolder' = NoFolder
        /\ UNCHANGED <<lastSearch, parseVars, cacheVars, serverVars, routerVars,
                       transportVars, diagVars, refVars>>

SecondPasses ==
    /\ now < MaxSeconds * SecondMs
    /\ \A due \in invalidations : due > now
    /\ now' = now + SecondMs
    /\ UNCHANGED <<timeouts, lastCall, runs, inFlight, lastRun, published, wsVars, refVars,
                   parseVars, cacheVars, serverVars, routerVars, transportVars>>

\* ------------------------------------------------------------------- router
\* The message loop of startServer, with the client's writes, the start of a
\* handler and its end as separate steps.

\* documentStore.get; NoDoc stands for undefined
NoDoc == [text |-> NoText, version |-> 0]

StoreGet(ds, uri) == IF uri \in DOMAIN ds THEN ds[uri] ELSE NoDoc

NoObserved == [seq |-> 0, request |-> FALSE, doc |-> NoDoc, expect |-> NoDoc]

RouterInit ==
    /\ stdin = <<>>
    /\ handling = <<>>
    /\ written = 0
    /\ done = 0
    /\ clientDocs = [u \in {} |-> None]
    /\ clientInit = FALSE
    /\ observed = NoObserved

\* The client writes msg. With the message travels what the client's earlier
\* notifications say about the document of msg.
ClientWrite(msg, cd) ==
    /\ written < MaxWrites
    /\ written' = written + 1
    /\ stdin' = Append(stdin, [msg |-> msg, seq |-> written + 1,
                               expect |-> StoreGet(clientDocs, msg.uri)])
    /\ clientDocs' = cd
    /\ clientInit' = (clientInit \/ msg.method = "initialize")
    /\ UNCHANGED <<handling, done, observed, parseVars, cacheVars, serverVars,
                   transportVars, diagVars, wsVars, refVars>>

WriteInitialize ==
    /\ ~clientInit
    /\ \E id \in Ids :
          ClientWrite(Message(id, "initialize", ElmJsonUri, NoText, 1, FALSE),
                      clientDocs)

WriteDidOpen ==
    \E uri \in DocUris, text \in Sources, version \in Versions :
        /\ clientInit
        /\ uri \notin DOMAIN clientDocs
        /\ ClientWrite(Message(NoId, "textDocument/didOpen", uri, text, version, FALSE),
                       StoreOpen(clientDocs, uri, text, version))

WriteDidChange ==
    \E uri \in DocUris, text \in Sources, version \in Versions :
        /\ uri \in DOMAIN clientDocs
        /\ version > clientDocs[uri].version
        /\ ClientWrite(Message(NoId, "textDocument/didChange", uri, text, version, FALSE),
                       StoreChange(clientDocs, uri, text, version))

WriteDidClose ==
    \E uri \in DocUris :
        /\ uri \in DOMAIN clientDocs
        /\ ClientWrite(Message(NoId, "textDocument/didClose", uri, NoText, 1, FALSE),
                       StoreClose(clientDocs, uri))

WriteRequest ==
    \E id \in Ids, uri \in DocUris,
       method \in {"textDocument/hover", "textDocument/documentSymbol"} :
        /\ clientInit
        /\ ClientWrite(Message(id, method, uri, NoText, 1, FALSE), clientDocs)

\* a loop that does not await its handlers
AwaitedNot(running) == TRUE

\* `await handleRequest(msg)` / `await handleNotification(msg)`: the loop goes
\* on only when the handler it started has finished
Awaited(running) == running = <<>>

\* reader.read() and tryParse hand the next message to its handler
RouterTake ==
    /\ exitCode = Running
    /\ Awaited(handling)
    /\ stdin # <<>>
    /\ handling' = Append(handling, Head(stdin))
    /\ stdin' = Tail(stdin)
    /\ UNCHANGED <<written, done, clientDocs, clientInit, observed,
                   parseVars, cacheVars, serverVars, transportVars, diagVars, wsVars, refVars>>

\* a handler that has started runs to its end
RouterFinish ==
    \E i \in 1..Len(handling), backendOk \in BOOLEAN :
        /\ Handle(handling[i].msg, backendOk, "result")
        /\ handling' = Splice(handling, i)
        /\ done' = done + 1
        /\ observed' = [seq |-> handling[i].seq,
                        request |-> isRequest(handling[i].msg),
                        doc |-> StoreGet(docs, handling[i].msg.uri),
                        expect |-> handling[i].expect]
        /\ UNCHANGED <<stdin, written, clientDocs, clientInit, transportVars, diagVars, wsVars, refVars>>

\* ----------------------------------------------------------------- references
\* Names are sequences of characters, so that name.length and prefix.length
\* are lengths; a module name is the sequence of its parts.
add == <<"a", "d", "d">>
Msg == <<"M", "s", "g">>
On == <<"O", "n">>
other == <<"n">>
fun == <<"f">>
Lib == <<"L", "i", "b">>
Main == <<"M", "a", "i", "n">>
LibAlias == <<"L">>
Basics == <<"B", "a", "s", "i", "c", "s">>

\* parts.join(".")
RECURSIVE Join(_)
Join(parts) ==
    IF parts = <<>> THEN <<>>
    ELSE IF Len(parts) = 1 THEN parts[1]
    ELSE parts[1] \o <<".">> \o Join(Tail(parts))

\* the text of a possibly qualified name
Qualified(parts, name) ==
    IF parts = <<>> THEN name ELSE Join(parts) \o <<".">> \o name

\* The range the parser gives a text written at (row, col): rows and columns
\* count from 1 and the end column is the one after the last character
\* ("Module.name" at range [r, c, r, c+len]).
RangeOf(row, col, text) == <<row, col, row, col + Len(text)>>

NoRange == <<0, 0, 0, 0>>

\* Node<Expression>, Node<Pattern> and Node<TypeAnnotation>, with the fields
\* the reference engine reads
Node(type, range, moduleName, name, patterns, declarations, cases, children) ==
    [type |-> type, range |-> range, moduleName |-> moduleName, name |-> name,
     patterns |-> patterns, declarations |-> declarations, cases |-> cases,
     children |-> children]

NoNode == Node("none", NoRange, <<>>, <<>>, <<>>, <<>>, <<>>, <<>>)

\* Node<string>
NameNode(row, col, name) == [value |-> name, range |-> RangeOf(row, col, name)]

\* the uses of a name the files are written with: add, Lib.add, L.add, On
Leaves ==
    {[moduleName |-> m, name |-> add] : m \in {<<>>, <<Lib>>, <<LibAlias>>}}
    \cup {[moduleName |-> <<>>, name |-> On]}

\* the patterns the files are written with: add, n, On n, On (On n), Lib.On
VarPatterns ==
    {[type |-> "var", moduleName |-> <<>>, name |-> v, arg |-> FALSE,
      nested |-> FALSE] :
        v \in {add, other}}

Patterns ==
    VarPatterns
    \cup {[type |-> "named", moduleName |-> <<>>, name |-> On, arg |-> TRUE,
           nested |-> FALSE],
          [type |-> "named", moduleName |-> <<>>, name |-> On, arg |-> TRUE,
           nested |-> TRUE],
          [type |-> "named", moduleName |-> <<Lib>>, name |-> On, arg |-> FALSE,
           nested |-> FALSE]}

NoPattern ==
    [type |-> "none", moduleName |-> <<>>, name |-> <<>>, arg |-> FALSE,
     nested |-> FALSE]

\* functionOrValue written at (row, col)
LeafAt(row, col, l) ==
    Node("functionOrValue", RangeOf(row, col, Qualified(l.moduleName, l.name)),
         l.moduleName, l.name, <<>>, <<>>, <<>>, <<>>)

\* a var pattern, or a named pattern with its argument, written at (row, col);
\* the range of a named pattern covers its qualifier and its arguments, and
\* a named pattern given as an argument stands in parentheses
RECURSIVE PatternAt(_, _, _)
PatternAt(row, col, p) ==
    IF p.type = "var"
    THEN Node("var", RangeOf(row, col, p.name), <<>>, p.name,
              <<>>, <<>>, <<>>, <<>>)
    ELSE IF p.nested
    THEN LET q == Qualified(p.moduleName, p.name)
             inner == PatternAt(row, col + Len(q) + 2, [p EXCEPT !.nested = FALSE])
             paren == Node("parentisized",
                           <<row, col + Len(q) + 1, row, inner.range[4] + 1>>,
                           <<>>, <<>>, <<inner>>, <<>>, <<>>, <<>>)
         IN  Node("named", <<row, col, row, paren.range[4]>>, p.moduleName,
                  p.name, <<paren>>, <<>>, <<>>, <<>>)
    ELSE LET q == Qualified(p.moduleName, p.name)
             sub == Node("var", RangeOf(row, col + Len(q) + 1, other), <<>>,
                         other, <<>>, <<>>, <<>>, <<>>)
         IN  IF p.arg
             THEN Node("named", <<row, col, row, sub.range[4]>>, p.moduleName,
                       p.name, <<sub>>, <<>>, <<>>, <<>>)
             ELSE Node("named", RangeOf(row, col, q), p.moduleName, p.name,
                       <<>>, <<>>, <<>>, <<>>)

\* a typed annotation written at (row, col): range is moduleNameAndName.range
TypedAt(row, col, parts, name) ==
    Node("typed", RangeOf(row, col, Qualified(parts, name)), parts, name,
         <<>>, <<>>, <<>>, <<>>)

\* the bodies the function f is written with
Bodies ==
    {[form |-> f, pattern |-> NoPattern, leaf |-> l] :
        f \in {"leaf", "application"}, l \in Leaves}
    \cup {[form |-> f, pattern |-> p, leaf |-> l] :
        f \in {"lambda", "case"}, p \in Patterns, l \in Leaves}
    \cup {[form |-> "let", pattern |-> p, leaf |-> l] :
        p \in VarPatterns, l \in Leaves}

\* the expression of a body written on one line at (row, col):
\*   leaf | leaf n | \pattern -> leaf | let name = n in leaf
\*   | case n of pattern -> leaf
ExprAt(row, col, b) ==
    LET n1 == [moduleName |-> <<>>, name |-> other] IN
    CASE b.form = "leaf" -> LeafAt(row, col, b.leaf)
      [] b.form = "application" ->
            LET head == LeafAt(row, col, b.leaf)
                arg == LeafAt(row, head.range[4] + 1, n1)
            IN  Node("application", <<row, col, row, arg.range[4]>>, <<>>, <<>>,
                     <<>>, <<>>, <<>>, <<head, arg>>)
      [] b.form = "lambda" ->
            LET pat == PatternAt(row, col + 1, b.pattern)
                body == LeafAt(row, pat.range[4] + 4, b.leaf)
            IN  Node("lambda", <<row, col, row, body.range[4]>>, <<>>, <<>>,
                     <<pat>>, <<>>, <<>>, <<body>>)
      [] b.form = "let" ->
            LET name == NameNode(row, col + 4, b.pattern.name)
                value == LeafAt(row, name.range[4] + 3, n1)
                body == LeafAt(row, value.range[4] + 4, b.leaf)
                decl == [type |-> "function",
                         range |-> <<row, col + 4, row, value.range[4]>>,
                         name |-> name, arguments |-> <<>>,
                         expression |-> value]
            IN  Node("let", <<row, col, row, body.range[4]>>, <<>>, <<>>,
                     <<>>, <<decl>>, <<>>, <<body>>)
      [] b.form = "case" ->
            LET scrutinee == LeafAt(row, col + 5, n1)
                pat == PatternAt(row, scrutinee.range[4] + 4, b.pattern)
                body == LeafAt(row, pat.range[4] + 4, b.leaf)
            IN  Node("case", <<row, col, row, body.range[4]>>, <<>>, <<>>,
                     <<>>, <<>>, <<[pattern |-> pat, expression |-> body]>>,
                     <<scrutinee>>)

\* ---- the files of the project
\* an item of an exposing list; the range of Msg(..) covers the suffix
Exposed(type, row, col, name, suffix) ==
    [type |-> type, name |-> name, range |-> RangeOf(row, col, name \o suffix)]

\* the items "add, Msg(..)" written at (row, col)
ItemsAt(row, col) ==
    <<Exposed("function", row, col, add, <<>>),
      Exposed("typeexpose", row, col + Len(add) + 2, Msg,
              <<"(", ".", ".", ")">>)>>

\* the column after "module M exposing (" or "import M exposing ("
ItemsCol(module) == 1 + 7 + Len(module) + 11

ImportStyles == {"plain", "alias", "explicit", "all"}

\* import Lib | import Lib as L | import Lib exposing (add, Msg(..))
\* | import Lib exposing (..), on row 2
ImportOf(style) ==
    [moduleName |-> <<Lib>>,
     moduleAlias |-> IF style = "alias" THEN <<LibAlias>> ELSE <<>>,
     exposingList |->
        [type |-> CASE style = "explicit" -> "explicit"
                    [] style = "all" -> "all"
                    [] OTHER -> "none",
         explicit |-> IF style = "explicit" THEN ItemsAt(2, ItemsCol(Lib))
                      ELSE <<>>]]

NoSignature ==
    [present |-> FALSE, name |-> [value |-> <<>>, range |-> NoRange],
     typeAnnotation |-> NoNode]

Declaration(type, range, name, signature, arguments, expression, constructors) ==
    [type |-> type, range |-> range, name |-> name, signature |-> signature,
     arguments |-> arguments, expression |-> expression,
     constructors |-> constructors]

\* type Msg = On Msg, on row 3
TypeDecl ==
    Declaration("typedecl", <<3, 1, 3, 18>>, NameNode(3, 6, Msg), NoSignature,
                <<>>, NoNode,
                <<[name |-> NameNode(3, 12, On),
                   arguments |-> <<TypedAt(3, 15, <<>>, Msg)>>]>>)

\* add n = n, on row 4
AddDecl ==
    Declaration("function", <<4, 1, 4, 10>>, NameNode(4, 1, add), NoSignature,
                <<PatternAt(4, 5, [type |-> "var", moduleName |-> <<>>,
                                   name |-> other, arg |-> FALSE,
                                   nested |-> FALSE])>>,
                LeafAt(4, 9, [moduleName |-> <<>>, name |-> other]), <<>>)

\* the annotations f is written with: none, Msg, Lib.Msg
NoSig == [moduleName |-> <<>>, name |-> <<>>]

Sigs == {NoSig} \cup {[moduleName |-> m, name |-> Msg] : m \in {<<>>, <<Lib>>}}

\* the argument f is written with: none, add, On n
Args == {NoPattern} \cup {p \in Patterns : p.name = add \/ (p.arg /\ ~p.nested)}

\* f : sig (row 5, when there is one) and f arg = body (row 6)
FunctionF(sig, arg, body) ==
    LET pat == PatternAt(6, 3, arg)
        expr == ExprAt(6, IF arg = NoPattern THEN 5 ELSE pat.range[4] + 3, body)
    IN  Declaration("function",
                    <<IF sig = NoSig THEN 6 ELSE 5, 1, 6, expr.range[4]>>,
                    NameNode(6, 1, fun),
                    IF sig = NoSig THEN NoSignature
                    ELSE [present |-> TRUE, name |-> NameNode(5, 1, fun),
                          typeAnnotation |->
                              TypedAt(5, 5, sig.moduleName, sig.name)],
                    IF arg = NoPattern THEN <<>> ELSE <<pat>>,
                    expr, <<>>)

\* The files the project is written with. Module Lib defines Msg, On and add
\* and has no import; module Main imports Lib in one of the four styles.
\* Both define f.
Files ==
    {[module |-> Lib, import |-> "none", sig |-> s, arg |-> a, body |-> b] :
        s \in Sigs, a \in Args, b \in Bodies}
    \cup {[module |-> Main, import |-> i, sig |-> s, arg |-> a, body |-> b] :
        i \in ImportStyles, s \in Sigs, a \in Args, b \in Bodies}

\* the AST of a file: module header on row 1, import on row 2, declarations
FileAst(d) ==
    [moduleName |-> <<d.module>>,
     exposingList |->
        IF d.module = Lib THEN ItemsAt(1, ItemsCol(Lib))
        ELSE <<Exposed("function", 1, ItemsCol(Main), fun, <<>>)>>,
     imports |-> IF d.module = Lib THEN <<>> ELSE <<ImportOf(d.import)>>,
     declarations |->
        (IF d.module = Lib THEN <<TypeDecl, AddDecl>> ELSE <<>>)
        \o <<FunctionF(d.sig, d.arg, d.body)>>]

\* module Lib as it is when the file searched from is Main
LibFile ==
    [module |-> Lib, import |-> "none", sig |-> NoSig, arg |-> NoPattern,
     body |-> [form |-> "leaf", pattern |-> NoPattern,
               leaf |-> [moduleName |-> <<>>, name |-> add]]]

\* glob.scanSync over the source directories: the file searched from, and
\* module Lib when that file is not it
ProjectOf(d) ==
    IF d.module = Lib THEN <<FileAst(d)>> ELSE <<FileAst(d), FileAst(LibFile)>>

\* ---- the reference engine
\* the concatenation of a sequence of sequences: pushes in source order
RECURSIVE Flat(_)
Flat(ss) == IF ss = <<>> THEN <<>> ELSE Head(ss) \o Flat(Tail(ss))

Includes(s, x) == \E i \in 1..Len(s) : s[i] = x

elmRangeToLsp(r) ==
    [start |-> [line |-> r[1] - 1, character |-> r[2] - 1],
     end |-> [line |-> r[3] - 1, character |-> r[4] - 1]]

positionInRange(pos, r) ==
    LET line == pos.line + 1
        col == pos.character + 1
    IN  /\ ~(line < r[1] \/ line > r[3])
        /\ ~(line = r[1] /\ col < r[2])
        /\ ~(line = r[3] /\ col > r[4])

nameRangeOfQualifiedExpr(exprRange, moduleParts, name) ==
    LET prefix == Join(moduleParts) \o <<".">>
        nameStart == exprRange[2] + Len(prefix)
    IN  <<exprRange[1], nameStart, exprRange[3], nameStart + Len(name) - 1>>

nameRangeOfExposed(exposedRange, name) ==
    <<exposedRange[1], exposedRange[2], exposedRange[1],
      exposedRange[2] + Len(name) - 1>>

\* createImportTracker(ast).aliasMapping.get(mod) ?? [mod]
Resolved(ast, mod) ==
    LET aliased == SelectSeq(ast.imports,
                             LAMBDA imp : /\ imp.moduleAlias # <<>>
                                          /\ Join(imp.moduleAlias) = mod)
    IN  IF aliased = <<>> THEN <<mod>>
        ELSE [i \in 1..Len(aliased) |-> Join(aliased[i].moduleName)]

\* createImportTracker(ast).explicitExposing.get(name) ?? []
explicitExposing(ast, name) ==
    LET exposing == SelectSeq(ast.imports,
            LAMBDA imp : /\ imp.exposingList.type = "explicit"
                         /\ \E i \in 1..Len(imp.exposingList.explicit) :
                                imp.exposingList.explicit[i].name = name)
    IN  [i \in 1..Len(exposing) |-> Join(exposing[i].moduleName)]

\* createImportTracker(ast).unknownImports: Basics and the modules imported
\* with exposing (..)
unknownImports(ast) ==
    LET open == SelectSeq(ast.imports,
                          LAMBDA imp : imp.exposingList.type = "all")
    IN  <<Basics>> \o [i \in 1..Len(open) |-> Join(open[i].moduleName)]

toModuleName(ast) == Join(ast.moduleName)

\* The test the three collectors make of a name found in a file: it is the
\* target's name and, qualified, its qualifier resolves to the defining
\* module; unqualified, the file is the defining module or imports the name
\* from it, explicitly or with (..).
refersToTarget(ast, target, fileModuleName, moduleParts, name) ==
    /\ name = target.name
    /\ IF Len(moduleParts) > 0
       THEN Includes(Resolved(ast, Join(moduleParts)), target.defModule)
       ELSE \/ fileModuleName = target.defModule
            \/ Includes(explicitExposing(ast, name), target.defModule)
            \/ Includes(unknownImports(ast), target.defModule)

RECURSIVE collectRefsInTypeAnnotation(_, _, _, _)
collectRefsInTypeAnnotation(ta, target, ast, fileModuleName) ==
    IF ta.type = "typed"
    THEN (IF refersToTarget(ast, target, fileModuleName, ta.moduleName, ta.name)
          THEN <<elmRangeToLsp(ta.range)>> ELSE <<>>)
         \o Flat([i \in 1..Len(ta.children) |->
                    collectRefsInTypeAnnotation(ta.children[i], target, ast,
                                                fileModuleName)])
    ELSE IF ta.type \in {"function", "tupled"}
    THEN Flat([i \in 1..Len(ta.children) |->
                    collectRefsInTypeAnnotation(ta.children[i], target, ast,
                                                fileModuleName)])
    ELSE <<>>

RECURSIVE collectRefsInPattern(_, _, _, _)
collectRefsInPattern(pat, target, ast, fileModuleName) ==
    IF pat.type = "named"
    THEN (IF refersToTarget(ast, target, fileModuleName, pat.moduleName, pat.name)
          THEN <<elmRangeToLsp(pat.range)>> ELSE <<>>)
         \o Flat([i \in 1..Len(pat.patterns) |->
                    collectRefsInPattern(pat.patterns[i], target, ast,
                                         fileModuleName)])
    ELSE IF pat.type \in {"tuple", "list", "as", "parentisized"}
    THEN Flat([i \in 1..Len(pat.patterns) |->
                    collectRefsInPattern(pat.patterns[i], target, ast,
                                         fileModuleName)])
    ELSE <<>>

\* the patterns are walked only for a constructor
collectRefsInPatterns(pats, target, ast, fileModuleName) ==
    IF target.kind = "constructor"
    THEN Flat([i \in 1..Len(pats) |->
                  collectRefsInPattern(pats[i], target, ast, fileModuleName)])
    ELSE <<>>

RECURSIVE collectRefsInExpr(_, _, _, _)
collectRefsInExpr(expr, target, ast, fileModuleName) ==
    LET recurse(child) == collectRefsInExpr(child, target, ast, fileModuleName)
        each(children) == Flat([i \in 1..Len(children) |-> recurse(children[i])])
    IN
    CASE expr.type = "functionOrValue" ->
            IF ~refersToTarget(ast, target, fileModuleName, expr.moduleName,
                               expr.name)
            THEN <<>>
            ELSE IF Len(expr.moduleName) > 0
            THEN <<elmRangeToLsp(nameRangeOfQualifiedExpr(
                        expr.range, expr.moduleName, expr.name))>>
            ELSE <<elmRangeToLsp(expr.range)>>
      [] expr.type = "let" ->
            Flat([i \in 1..Len(expr.declarations) |->
                    recurse(expr.declarations[i].expression)
                    \o collectRefsInPatterns(expr.declarations[i].arguments,
                                             target, ast, fileModuleName)])
            \o each(expr.children)
      [] expr.type = "case" ->
            each(expr.children)
            \o Flat([i \in 1..Len(expr.cases) |->
                    collectRefsInPatterns(<<expr.cases[i].pattern>>, target,
                                          ast, fileModuleName)
                    \o recurse(expr.cases[i].expression)])
      [] expr.type = "lambda" ->
            collectRefsInPatterns(expr.patterns, target, ast, fileModuleName)
            \o each(expr.children)
      [] expr.type \in {"application", "parenthesized", "tupled", "list"} ->
            each(expr.children)
      [] OTHER -> <<>>

canFileReference(ast, target, fileModuleName) ==
    \/ fileModuleName = target.defModule
    \/ \E i \in 1..Len(ast.imports) :
          \/ Join(ast.imports[i].moduleName) = target.defModule
          \/ /\ ast.imports[i].moduleAlias # <<>>
             /\ Join(ast.imports[i].moduleAlias) = target.defModule
    \/ target.defModule = Basics

\* the items of an exposing list that name the target, trimmed to the name
exposedRefs(items, target) ==
    LET named == SelectSeq(items, LAMBDA exposed : exposed.name = target.name)
    IN  [i \in 1..Len(named) |->
            elmRangeToLsp(nameRangeOfExposed(named[i].range, target.name))]

\* the Locations one declaration gives, in the order of the pushes
collectRefsInDeclaration(decl, target, ast, fileModuleName) ==
    LET own == fileModuleName = target.defModule
        ctors == SelectSeq(decl.constructors,
                           LAMBDA ctor : ctor.name.value = target.name)
    IN  (IF own /\ decl.name.value = target.name
         THEN <<elmRangeToLsp(decl.name.range)>> ELSE <<>>)
        \o (IF own /\ decl.type = "typedecl" /\ target.kind = "constructor"
            THEN [i \in 1..Len(ctors) |-> elmRangeToLsp(ctors[i].name.range)]
            ELSE <<>>)
        \o (IF decl.type = "function" /\ decl.signature.present
            THEN (IF decl.signature.name.value = target.name /\ own
                  THEN <<elmRangeToLsp(decl.signature.name.range)>> ELSE <<>>)
                 \o (IF target.kind = "type"
                     THEN collectRefsInTypeAnnotation(
                              decl.signature.typeAnnotation, target, ast,
                              fileModuleName)
                     ELSE <<>>)
            ELSE <<>>)
        \o (IF decl.type = "typedecl" /\ target.kind = "type"
            THEN Flat([i \in 1..Len(decl.constructors) |->
                    Flat([j \in 1..Len(decl.constructors[i].arguments) |->
                        collectRefsInTypeAnnotation(
                            decl.constructors[i].arguments[j], target, ast,
                            fileModuleName)])])
            ELSE <<>>)
        \o (IF decl.type = "function"
            THEN collectRefsInExpr(decl.expression, target, ast, fileModuleName)
                 \o collectRefsInPatterns(decl.arguments, target, ast,
                                          fileModuleName)
            ELSE <<>>)

collectRefsInFile(ast, fileUri, target, fileModuleName) ==
    IF ~canFileReference(ast, target, fileModuleName) THEN <<>>
    ELSE LET ranges ==
                (IF fileModuleName = target.defModule
                 THEN exposedRefs(ast.exposingList, target) ELSE <<>>)
                \o Flat([i \in 1..Len(ast.imports) |->
                        IF Join(ast.imports[i].moduleName) = target.defModule
                           /\ ast.imports[i].exposingList.type = "explicit"
                        THEN exposedRefs(ast.imports[i].exposingList.explicit,
                                         target)
                        ELSE <<>>])
                \o Flat([i \in 1..Len(ast.declarations) |->
                        collectRefsInDeclaration(ast.declarations[i], target,
                                                 ast, fileModuleName)])
         IN  [i \in 1..Len(ranges) |-> [uri |-> fileUri, range |-> ranges[i]]]

\* ---- the symbol at the cursor
NoIdentity == [defModule |-> <<>>, name |-> <<>>, kind |-> "none"]

SymbolIdentity(defModule, name, kind) ==
    [defModule |-> defModule, name |-> name, kind |-> kind]

\* the first identity of a sequence of results that is not null
FirstIdentity(ids) ==
    LET hits == SelectSeq(ids, LAMBDA id : id.kind # "none")
    IN  IF hits = <<>> THEN NoIdentity ELSE hits[1]

findDeclarationWithName(ast, name) ==
    SelectSeq(ast.declarations, LAMBDA decl : decl.name.value = name)

findCustomTypeVariantWithName(ast, name) ==
    \E i \in 1..Len(ast.declarations) :
        \E j \in 1..Len(ast.declarations[i].constructors) :
            ast.declarations[i].constructors[j].name.value = name

\* resolveModuleToFile and parse: the ASTs of the project's files that are
\* the module
resolveModuleToFile(modName, project) ==
    SelectSeq(project, LAMBDA fileAst : toModuleName(fileAst) = modName)

RECURSIVE findIdentityInExpr(_, _, _, _, _)
findIdentityInExpr(expr, position, ast, project, currentModule) ==
    LET recurse(child) ==
            findIdentityInExpr(child, position, ast, project, currentModule)
        first(children) ==
            FirstIdentity([i \in 1..Len(children) |-> recurse(children[i])])
        name == expr.name
        fromExplicit == explicitExposing(ast, name)
        fromOpen == SelectSeq(unknownImports(ast),
            LAMBDA modName :
                \E i \in 1..Len(resolveModuleToFile(modName, project)) :
                    LET targetAst == resolveModuleToFile(modName, project)[i]
                    IN  \/ findDeclarationWithName(targetAst, name) # <<>>
                        \/ findCustomTypeVariantWithName(targetAst, name))
        inside == SelectSeq(expr.declarations,
            LAMBDA d : d.type = "function" /\ positionInRange(position, d.range))
    IN
    IF expr.type = "none" \/ ~positionInRange(position, expr.range)
    THEN NoIdentity
    ELSE
    CASE expr.type = "functionOrValue" ->
            IF Len(expr.moduleName) > 0
            THEN SymbolIdentity(Resolved(ast, Join(expr.moduleName))[1], name,
                                "value")
            ELSE IF findDeclarationWithName(ast, name) # <<>>
            THEN SymbolIdentity(currentModule, name, "value")
            ELSE IF findCustomTypeVariantWithName(ast, name)
            THEN SymbolIdentity(currentModule, name, "constructor")
            ELSE IF Len(fromExplicit) > 0
            THEN SymbolIdentity(fromExplicit[1], name, "value")
            ELSE IF Len(fromOpen) > 0
            THEN SymbolIdentity(fromOpen[1], name, "value")
            ELSE NoIdentity
      [] expr.type = "let" ->
            IF inside # <<>> THEN recurse(inside[1].expression)
            ELSE first(expr.children)
      [] expr.type = "case" ->
            first(expr.children
                  \o [i \in 1..Len(expr.cases) |-> expr.cases[i].expression])
      [] expr.type \in {"application", "lambda", "parenthesized", "tupled",
                        "list"} ->
            first(expr.children)
      [] OTHER -> NoIdentity

\* what one declaration holding the cursor resolves it to
identityInDeclaration(decl, position, ast, project, currentModule) ==
    LET ctors == SelectSeq(decl.constructors,
                    LAMBDA ctor : positionInRange(position, ctor.name.range))
    IN
    IF ~positionInRange(position, decl.range) THEN NoIdentity
    ELSE IF positionInRange(position, decl.name.range)
    THEN SymbolIdentity(currentModule, decl.name.value,
                        IF decl.type \in {"typedecl", "typeAlias"}
                        THEN "type" ELSE "value")
    ELSE IF decl.type = "typedecl" /\ ctors # <<>>
    THEN SymbolIdentity(currentModule, ctors[1].name.value, "constructor")
    ELSE IF decl.type = "function"
    THEN IF decl.signature.present
            /\ positionInRange(position, decl.signature.name.range)
         THEN SymbolIdentity(currentModule, decl.signature.name.value, "value")
         ELSE findIdentityInExpr(decl.expression, position, ast, project,
                                 currentModule)
    ELSE NoIdentity

resolveSymbolAtPosition(position, ast, project) ==
    LET currentModule == toModuleName(ast)
        exposedAt(imp) ==
            LET at == SelectSeq(imp.exposingList.explicit,
                        LAMBDA exposed : positionInRange(position, exposed.range))
            IN  IF imp.exposingList.type = "explicit" /\ at # <<>>
                THEN SymbolIdentity(Join(imp.moduleName), at[1].name,
                                    IF at[1].type \in {"typeOrAlias", "typeexpose"}
                                    THEN "type" ELSE "value")
                ELSE NoIdentity
    IN  FirstIdentity(
            [i \in 1..Len(ast.imports) |-> exposedAt(ast.imports[i])]
            \o [i \in 1..Len(ast.declarations) |->
                    identityInDeclaration(ast.declarations[i], position, ast,
                                          project, currentModule)])

\* findReferences that returns allLocations as collected
DeduplicateNot(locs, seen) == locs

\* the filter of the result: the first Location of each (uri, start)
RECURSIVE Deduplicate(_, _)
Deduplicate(locs, seen) ==
    IF locs = <<>> THEN <<>>
    ELSE LET loc == Head(locs)
             key == <<loc.uri, loc.range.start.line, loc.range.start.character>>
         IN  IF key \in seen THEN Deduplicate(Tail(locs), seen)
             ELSE <<loc>> \o Deduplicate(Tail(locs), seen \cup {key})

\* the Locations of one file, without the declaration when it is not asked for
refsOfFile(fileAst, fileUri, id, withDecl) ==
    LET fileModule == toModuleName(fileAst)
        refs == collectRefsInFile(fileAst, fileUri, id, fileModule)
        found == findDeclarationWithName(fileAst, id.name)
    IN  IF ~withDecl /\ fileModule = id.defModule /\ found # <<>>
        THEN LET declRange == elmRangeToLsp(found[1].name.range)
             IN  SelectSeq(refs, LAMBDA ref :
                    ~(/\ ref.range.start.line = declRange.start.line
                      /\ ref.range.start.character = declRange.start.character))
        ELSE refs

\* glob.scanSync({ cwd: sourceDir, absolute: true }): the URIs of the files
\* under a source directory; every directory of SourceDirectories holds
\* every file of the project
scanSync(project, sourceDir) == [u \in 1..Len(project) |-> u]

\* the source-directories of elm.json: "src", or "." before "src"
SourceDirectories == {<<"src">>, <<".", "src">>}

findReferences(project, sourceDirs, position, withDecl) ==
    LET id == resolveSymbolAtPosition(position, project[1], project)
        refsUnder(sourceDir) ==
            LET match == scanSync(project, sourceDir)
            IN  Flat([k \in 1..Len(match) |->
                        refsOfFile(project[match[k]], match[k], id, withDecl)])
    IN  IF id = NoIdentity THEN <<>>
        ELSE Deduplicate(
                Flat([d \in 1..Len(sourceDirs) |-> refsUnder(sourceDirs[d])]),
                {})

\* ---- rename
\* null, and the value of workspaceEdit before a rename is asked for
Null == [kind |-> "null", newName |-> <<>>, changes |-> <<>>]

NotAsked == [kind |-> "none", newName |-> <<>>, changes |-> <<>>]

\* Push that files every edit under the URI of the first reference
PushUnderFirst(changes, ref, newName) ==
    LET u1 == IF DOMAIN changes = {} THEN ref.uri
              ELSE CHOOSE u \in DOMAIN changes : TRUE
    IN  [u \in {u1} |->
            (IF u \in DOMAIN changes THEN changes[u] ELSE <<>>)
            \o <<[range |-> ref.range, newText |-> newName]>>]

\* changes[ref.uri].push({ range: ref.range, newText: newName })
Push(changes, ref, newName) ==
    [u \in DOMAIN changes \cup {ref.uri} |->
        IF u = ref.uri
        THEN (IF u \in DOMAIN changes THEN changes[u] ELSE <<>>)
             \o <<[range |-> ref.range, newText |-> newName]>>
        ELSE changes[u]]

\* the loop of doRename over refs
RECURSIVE Changes(_, _, _)
Changes(refs, newName, changes) ==
    IF refs = <<>> THEN changes
    ELSE Changes(Tail(refs), newName, Push(changes, Head(refs), newName))

doRename(project, sourceDirs, position, newName) ==
    LET refs == findReferences(project, sourceDirs, position, TRUE)
    IN  IF Len(refs) = 0 THEN Null
        ELSE [kind |-> "edit", newName |-> newName,
              changes |-> Changes(refs, newName, <<>>)]

\* the names a client renames to
NewNames == {<<"s", "u", "m">>, <<"O", "k">>}

\* ---- a references request
\* the names a pattern binds
RECURSIVE PatternVars(_)
PatternVars(pat) ==
    IF pat.type = "var" THEN {pat.name}
    ELSE UNION {PatternVars(pat.patterns[i]) : i \in 1..Len(pat.patterns)}

PatternsVars(pats) == UNION {PatternVars(pats[i]) : i \in 1..Len(pats)}

\* The uses of names in an expression, each with where it starts and whether
\* it is unqualified and bound by an enclosing local binder: bound holds the
\* names the enclosing function arguments, let bindings, case-branch
\* patterns and lambda arguments bind.
RECURSIVE Occurrences(_, _)
Occurrences(expr, bound) ==
    LET letNames == {expr.declarations[i].name.value :
                        i \in 1..Len(expr.declarations)}
        each(children, names) ==
            UNION {Occurrences(children[i], names) : i \in 1..Len(children)}
    IN
    CASE expr.type = "functionOrValue" ->
            {[start |-> elmRangeToLsp(expr.range).start, name |-> expr.name,
              local |-> expr.moduleName = <<>> /\ expr.name \in bound]}
      [] expr.type = "let" ->
            UNION {Occurrences(expr.declarations[i].expression,
                        bound \cup letNames
                        \cup PatternsVars(expr.declarations[i].arguments)) :
                   i \in 1..Len(expr.declarations)}
            \cup each(expr.children, bound \cup letNames)
      [] expr.type = "case" ->
            each(expr.children, bound)
            \cup UNION {Occurrences(expr.cases[i].expression,
                            bound \cup PatternVars(expr.cases[i].pattern)) :
                        i \in 1..Len(expr.cases)}
      [] expr.type = "lambda" ->
            each(expr.children, bound \cup PatternsVars(expr.patterns))
      [] OTHER -> each(expr.children, bound)

\* the uses of names in the function bodies of a file
OccurrencesIn(ast) ==
    UNION {Occurrences(ast.declarations[i].expression,
                       PatternsVars(ast.declarations[i].arguments)) :
           i \in {j \in 1..Len(ast.declarations) :
                    ast.declarations[j].type = "function"}}

\* where a client puts the cursor: at the start of an exposing item, of a
\* declared name, of a constructor, of a signature or of a use of a name
CursorSites(ast) ==
    LET starts(nodes) ==
            {elmRangeToLsp(nodes[i].range).start : i \in 1..Len(nodes)}
        decls == ast.declarations
    IN  starts(ast.exposingList)
        \cup UNION {starts(ast.imports[i].exposingList.explicit) :
                        i \in 1..Len(ast.imports)}
        \cup {elmRangeToLsp(decls[i].name.range).start : i \in 1..Len(decls)}
        \cup {elmRangeToLsp(decls[i].signature.name.range).start :
                i \in {j \in 1..Len(decls) : decls[j].signature.present}}
        \cup UNION {{elmRangeToLsp(decls[i].constructors[j].name.range).start :
                        j \in 1..Len(decls[i].constructors)} :
                    i \in 1..Len(decls)}
        \cup {o.start : o \in OccurrencesIn(ast)}

\* no request: the other parts of the server run
RefIdle ==
    /\ elmFile = LibFile
    /\ cursor = [line |-> 0, character |-> 0]
    /\ withDeclaration = TRUE
    /\ allLocations = <<>>
    /\ searched = FALSE
    /\ sourceDirectories = <<"src">>
    /\ workspaceEdit = NotAsked

\* a client has a file of the project open and asks for the references of
\* what is at the cursor
RefInit ==
    /\ elmFile \in Files
    /\ cursor \in CursorSites(FileAst(elmFile))
    /\ withDeclaration \in BOOLEAN
    /\ allLocations = <<>>
    /\ searched = FALSE
    /\ sourceDirectories \in SourceDirectories
    /\ workspaceEdit = NotAsked

\* textDocument/references is answered
FindReferences ==
    /\ ~searched
    /\ searched' = TRUE
    /\ allLocations' = findReferences(ProjectOf(elmFile), sourceDirectories,
                                      cursor, withDeclaration)
    /\ UNCHANGED <<elmFile, cursor, withDeclaration, sourceDirectories,
                   workspaceEdit>>
    /\ UNCHANGED <<parseVars, cacheVars, serverVars, routerVars, transportVars,
                   diagVars, wsVars>>

\* textDocument/rename is answered
DoRename ==
    /\ workspaceEdit = NotAsked
    /\ \E newName \in NewNames :
          workspaceEdit' = doRename(ProjectOf(elmFile), sourceDirectories, cursor,
                                   newName)
    /\ UNCHANGED <<elmFile, cursor, withDeclaration, allLocations, searched,
                   sourceDirectories>>
    /\ UNCHANGED <<parseVars, cacheVars, serverVars, routerVars, transportVars,
                   diagVars, wsVars>>

MoreInit == RouterInit /\ TransportIdle /\ DiagInit /\ WsInit /\ RefIdle

\* ------------------------------------------------------------ specifications
Init == ParseInit /\ CacheInit /\ ServerInit /\ MoreInit

InitCache == ParseInit /\ CachePrefilled /\ ServerInit /\ MoreInit

NextCache == CacheGetCall \/ CacheSetCall

SpecCache == InitCache /\ [][NextCache]_vars

\* the server with any client
NextServer ==
    \/ Request
    \/ FeatureRequest
    \/ ClientNotification
    \/ AnyDidOpen
    \/ AnyDidChange
    \/ AnyDidClose
    \/ AnyDidSave
    \/ ClientResponse
    \/ StdinEnd

SpecServer == Init /\ [][NextServer]_vars

\* the server with a client that keeps to the protocol for its documents
NextLsp ==
    \/ Request
    \/ FeatureRequest
    \/ ClientNotification
    \/ LspDidOpen
    \/ LspDidChange
    \/ LspDidClose
    \/ AnyDidSave
    \/ StdinEnd

SpecLsp == Init /\ [][NextLsp]_vars

\* the message loop with a client that initializes first
NextRouter ==
    \/ WriteInitialize
    \/ WriteDidOpen
    \/ WriteDidChange
    \/ WriteDidClose
    \/ WriteRequest
    \/ RouterTake
    \/ RouterFinish

SpecRouter == Init /\ [][NextRouter]_vars

\* the framing of the byte stream
InitTransport ==
    ParseInit /\ CacheInit /\ ServerInit /\ RouterInit /\ TransportInit /\ DiagInit
    /\ WsInit /\ RefIdle

NextTransport == Read \/ Drain

SpecTransport == InitTransport /\ [][NextTransport]_vars

\* diagnostics: calls, the clock, the timeouts and the runs
NextDiagnostics ==
    \/ RunDiagnosticsCall
    \/ TimerFire
    \/ Tick
    \/ RunReturns

SpecDiagnostics == Init /\ [][NextDiagnostics]_vars

\* the workspace-symbol cache: searches, the clock and the timeouts
NextWorkspace ==
    \/ GetAllSymbols
    \/ InvalidateCache
    \/ SecondPasses

SpecWorkspace == Init /\ [][NextWorkspace]_vars

\* a references request on a file of the project
InitReferences ==
    ParseInit /\ CacheInit /\ ServerInit /\ RouterInit /\ TransportIdle /\ DiagInit
    /\ WsInit /\ RefInit

NextReferences ==
    \/ FindReferences
    \/ DoRename

SpecReferences == InitReferences /\ [][NextReferences]_vars

Next ==
    \/ ParseCall
    \/ WorkerAnswer
    \/ WorkerThrow
    \/ WorkerCrash
    \/ OnMessage
    \/ OnError

Spec == Init /\ [][Next]_vars

\* The parse service with a backend that answers every source it is sent;
\* the worker and the event loop of the main thread keep running.
NextAnswering ==
    \/ ParseCall
    \/ WorkerAnswer
    \/ OnMessage

SpecAnswering ==
    /\ Init
    /\ [][NextAnswering]_vars
    /\ WF_vars(WorkerAnswer)
    /\ WF_vars(OnMessage)

\* ------------------------------------------------------ parse service claims
CallIds == 1..Len(calls)

\* the step is worker.onmessage taken in the busy state
AnswerArrives ==
    /\ chan # <<>>
    /\ Head(chan).kind # "error"
    /\ chan' = Tail(chan)
    /\ state.tag = "busy"

\* the step is worker.onerror taken in the busy state
ErrorArrives ==
    /\ chan # <<>>
    /\ Head(chan).kind = "error"
    /\ chan' = Tail(chan)
    /\ state.tag = "busy"

\* C1: when the answer for the source in flight arrives and calls are queued,
\* exactly one more source goes to the backend, the most recently queued one,
\* its call becomes the one in flight, and every other queued call resolves
\* with none.
C1_LatestWins ==
    [][(AnswerArrives /\ Len(state.queue) > 0) =>
        LET q == state.queue
            last == q[Len(q)]
        IN /\ posted' = Append(posted, last.source)
           /\ state' = Busy(last.resolve, <<>>)
           /\ calls'[last.resolve].result = Pending
           /\ \A i \in 1..(Len(q) - 1) :
                /\ calls'[q[i].resolve].result = None
                /\ calls'[q[i].resolve].how = "discard"]_vars

\* s1 answered, s2 discarded, s3 sent: the backend got s1 then s3
C1_Witness ==
    /\ Len(calls) = 3
    /\ calls[1].how = "answer"
    /\ calls[2].how = "discard" /\ calls[2].result = None
    /\ posted = <<calls[1].source, calls[3].source>>
    /\ calls[1].source # calls[2].source
    /\ calls[2].source # calls[3].source

\* C2: with a backend that answers every source, the last-submitted call is
\* never discarded (once resolved it holds the backend's answer for its own
\* source), and every call eventually resolves.
C2_LastCallServed ==
    /\ [](\A c \in CallIds :
            (c = Len(calls) /\ calls[c].result # Pending) =>
                /\ calls[c].how = "answer"
                /\ calls[c].result = ElmParse(calls[c].source).ast)
    /\ \A c \in 1..MaxCalls :
         (Len(calls) >= c) ~> (Len(calls) >= c /\ calls[c].result # Pending)

\* a burst of three: the middle call discarded, the last one answered
C2_Witness ==
    /\ Len(calls) = 3
    /\ calls[2].how = "discard"
    /\ calls[3].how = "answer"
    /\ calls[3].result = AstOf(calls[3].source)

\* C3: when the backend's failure reaches the service while a parse is in
\* flight, the call in flight and every queued call resolve with none and the
\* service is idle; an idle service leaves no call pending.
C3_ErrorResolvesAll ==
    /\ [][ErrorArrives =>
            /\ state' = Idle
            /\ \A c \in CallIds :
                 /\ calls'[c].result # Pending
                 /\ calls[c].result = Pending => calls'[c].result = None]_vars
    /\ [](state.tag = "idle" => \A c \in CallIds : calls[c].result # Pending)

\* a failure that caught one call in flight and two queued
C3_Witness ==
    /\ state = Idle
    /\ Len(calls) = 3
    /\ \A c \in CallIds : calls[c].how = "error" /\ calls[c].result = None

\* C4: a call in flight with no backend event on its way to the service is
\* at a working backend, also after a failure of the backend.
C4_BackendReestablished ==
    (state.tag = "busy" /\ chan = <<>>) => workerAlive

\* ---------------------------------------------------------- AST cache claims
UrisOf(es) == {es[i].uri : i \in 1..Len(es)}

\* C6: the cache never holds more than MAX_SIZE entries nor two entries of
\* one URI, and after setCachedAst the only entry of the URI is the one just
\* written, whatever version the entry it replaced had.
C6_OneEntryPerUri ==
    /\ Len(entries) <= MAX_SIZE
    /\ \A i, j \in 1..Len(entries) : entries[i].uri = entries[j].uri => i = j
    /\ lastOp.op = "set" =>
         /\ lastOp.uri \in UrisOf(entries)
         /\ \A i \in 1..Len(entries) :
              entries[i].uri = lastOp.uri =>
                entries[i] = [uri |-> lastOp.uri, version |-> lastOp.version,
                              ast |-> lastOp.ast]

\* a full cache in which the version 1 entry of URI 2 was just replaced by a
\* version 2 entry
C6_Witness ==
    /\ Len(entries) = MAX_SIZE
    /\ nops = 1
    /\ lastOp.op = "set" /\ lastOp.uri = 2 /\ lastOp.version = 2
    /\ \E i \in 1..Len(entries) : entries[i].uri = 2 /\ entries[i].version = 2

\* C7: a setCachedAst of a new URI into a full cache evicts exactly one
\* entry, the one whose last successful get or set is the oldest; no other
\* cache call evicts anything (a set only replaces the entry of its own URI).
C7_EvictsLeastRecentlyUsed ==
    [][(nops' = nops + 1) =>
        LET before == UrisOf(entries)
            gone == before \ UrisOf(entries')
        IN IF /\ lastOp'.op = "set"
              /\ lastOp'.uri \notin before
              /\ Len(entries) = MAX_SIZE
           THEN /\ Len(entries') = MAX_SIZE
                /\ Cardinality(gone) = 1
                /\ \A g \in gone : \A u \in before : lastUse[g] <= lastUse[u]
           ELSE gone = {}]_vars

\* 50 distinct inserts, a read of the oldest entry, then a 51st distinct
\* insert: the second-oldest entry is the one gone
C7_Witness ==
    /\ nops = 2
    /\ lastOp.op = "set" /\ lastOp.uri = MAX_SIZE + 1
    /\ Len(entries) = MAX_SIZE
    /\ UrisOf(entries) = (1..(MAX_SIZE + 1)) \ {2}

\* ------------------------------------------------------------ server claims
\* C5: an AST a request handler takes from the AST cache is the parse of the
\* text the document store holds for that document.
C5_CachedAstIsCurrent ==
    taken.ast # None =>
        /\ taken.uri \in DOMAIN docs
        /\ taken.ast = ElmParse(docs[taken.uri].text).ast

\* C8: a request other than initialize handled before initialize is answered
\* with ServerNotInitialized alone and changes nothing else; after initialize
\* a request whose method is not served is answered with MethodNotFound.
C8_DispatchBySessionState ==
    /\ [][(isRequest(cur') /\ ~initialized') =>
            /\ sent' = <<ErrorResponse(cur'.id, ServerNotInitialized)>>
            /\ ~cur'.threw
            /\ UNCHANGED <<initialized, shuttingDown, exitCode, docs, entries,
                           lastGoodSymbols, debounceTimers>>]_vars
    /\ []((isRequest(cur) /\ initialized /\ cur.method \notin ServedMethods) =>
            sent = <<ErrorResponse(cur.id, MethodNotFound)>>)

\* a shutdown request before initialize: refused, the flag stays unset
C8_Witness ==
    /\ ~initialized
    /\ isRequest(cur) /\ cur.method = "shutdown"
    /\ sent = <<ErrorResponse(cur.id, ServerNotInitialized)>>
    /\ ~shuttingDown

\* C9: after an exit notification the process has exited, with code 0 when
\* the shutting-down flag is set and code 1 otherwise, whether or not the
\* server was initialized; only a shutdown request handled after initialize
\* sets the flag.
C9_ExitCode ==
    /\ []((isNotification(cur) /\ cur.method = "exit") =>
            exitCode = IF shuttingDown THEN 0 ELSE 1)
    /\ [][(shuttingDown' /\ ~shuttingDown) =>
            (initialized /\ isRequest(cur') /\ cur'.method = "shutdown")]_vars

\* exit before initialize: the process is gone, with code 1
C9_Witness ==
    /\ isNotification(cur) /\ cur.method = "exit"
    /\ ~initialized
    /\ exitCode = 1

\* C10: when a handler throws, a request is answered with InternalError and
\* nothing else, a notification with nothing, and the process keeps running.
C10_HandlerErrorsIsolated ==
    cur.threw =>
        /\ exitCode = Running
        /\ sent = IF isRequest(cur)
                  THEN <<ErrorResponse(cur.id, InternalError)>>
                  ELSE <<>>

\* a hover request whose handler threw after the server was initialized
C10_Witness ==
    /\ cur.threw
    /\ initialized
    /\ isRequest(cur) /\ cur.method = "textDocument/hover"
    /\ sent = <<ErrorResponse(cur.id, InternalError)>>
    /\ exitCode = Running

\* C11: the router handles the messages one at a time and in the order of
\* their arrival, so a request sees the store as the notifications written
\* before it left it.
C11_InArrivalOrder ==
    /\ Len(handling) <= 1
    /\ observed.seq = done
    /\ observed.request => observed.doc = observed.expect

\* a request written after a didOpen and a didChange of its document has
\* been handled and saw the changed document
C11_Witness ==
    /\ observed.request
    /\ observed.seq = done
    /\ observed.doc = observed.expect
    /\ observed.doc.version > 1
    /\ written = MaxWrites

\* ---------------------------------------------------------- transport claims
AllEncoded == \A i \in 1..Len(framed) : framed[i].style = "encode"

\* the frame the buffer starts with, or is about to receive
CurrentFrame ==
    Frame(framed[Len(drained) + 1].message, framed[Len(drained) + 1].style)

\* C12: tryParse(encode(m)) is m with an empty remainder, and a stream of
\* encoded messages is drained into these messages, in order, leaving an
\* empty buffer.
C12_FramingRoundTrip ==
    /\ \A i \in 1..Len(framed) :
          tryParse(encode(framed[i].message)) =
              ParsedMessage(framed[i].message, <<>>)
    /\ AllEncoded =>
          /\ Len(drained) <= Len(framed)
          /\ \A i \in 1..Len(drained) : drained[i] = framed[i].message
          /\ (wire = <<>> /\ tryParse(buffer).kind = "need-more") =>
                (Len(drained) = Len(framed) /\ buffer = <<>>)

\* two encoded messages, one of them with a character outside ASCII, arrived
\* in one chunk and were both drained
C12_Witness ==
    /\ AllEncoded
    /\ Len(framed) = 2
    /\ reads = 1
    /\ Len(drained) = 2
    /\ buffer = <<>>
    /\ \E i \in 1..2 : framed[i].message = <<"eacute">>

\* C13: tryParse returns need-more while the buffer holds a strict prefix of
\* a valid frame.
C13_PrefixNeedsMore ==
    (/\ Len(drained) < Len(framed)
     /\ Len(buffer) < Len(CurrentFrame)
     /\ buffer = SubSeq(CurrentFrame, 1, Len(buffer)))
        => tryParse(buffer) = NeedMore

\* the buffer ends inside the body of the frame
C13_Witness ==
    /\ Len(drained) < Len(framed)
    /\ Len(buffer) < Len(CurrentFrame)
    /\ buffer = SubSeq(CurrentFrame, 1, Len(buffer))
    /\ IndexOf(buffer, HEADER_SEPARATOR) # -1
    /\ Len(buffer) > IndexOf(buffer, HEADER_SEPARATOR) + Len(HEADER_SEPARATOR)
    /\ tryParse(buffer) = NeedMore

\* C14: a buffer that starts with a complete frame, whatever the order of
\* its header lines, is parsed into its message and the remainder.
C14_CompleteFrameParsed ==
    (/\ Len(drained) < Len(framed)
     /\ Len(buffer) >= Len(CurrentFrame)
     /\ SubSeq(buffer, 1, Len(CurrentFrame)) = CurrentFrame)
        => tryParse(buffer) =
              ParsedMessage(framed[Len(drained) + 1].message,
                            SubSeq(buffer, Len(CurrentFrame) + 1, Len(buffer)))

\* -------------------------------------------------------- diagnostics claims
RunsOf(uri, call) ==
    {i \in 1..Len(runs) : runs[i].uri = uri /\ runs[i].lastCall = call}

\* C15: per URI at most one timeout is pending, it is due 300 ms after the
\* last runDiagnostics call for that URI, every run starts 300 ms after the
\* last call before it, and the calls up to the last one produce exactly one
\* run once that time has passed.
C15_DebouncedPerUri ==
    /\ \A t1 \in timeouts, t2 \in timeouts : t1.uri = t2.uri => t1 = t2
    /\ \A tm \in timeouts : tm.due = lastCall[tm.uri] + DEBOUNCE_MS
    /\ debounceTimers = {tm.uri : tm \in timeouts}
    /\ \A i \in 1..Len(runs) : runs[i].at = runs[i].lastCall + DEBOUNCE_MS
    /\ \A u \in DiagUris :
          lastCall[u] # Never =>
              Cardinality(RunsOf(u, lastCall[u])) =
                  IF \E tm \in timeouts : tm.uri = u THEN 0 ELSE 1

\* three calls for document 1, 100 ms apart, gave one run, 300 ms after the
\* third, while a timeout of the other URI is pending
C15_Witness ==
    /\ Len(runs) = 1
    /\ runs[1] = [uri |-> 1, at |-> 2 * TickMs + DEBOUNCE_MS, lastCall |-> 2 * TickMs]
    /\ \E tm \in timeouts : tm.uri = LinkedUri

Mentioned(run) ==
    CASE run.report.type = "compile-errors" ->
            {Realpath(run.report.errors[i]) : i \in 1..Len(run.report.errors)}
      [] run.report.type = "error" -> {run.uri}
      [] OTHER -> {}

PubsFor(run, uri) == {i \in 1..Len(run.pubs) : run.pubs[i].uri = uri}

\* C16: a run that found a manifest and completed the compiler call has
\* published once for every file of the report and once for the saved URI,
\* with an empty list for the saved URI when the report does not mention it.
C16_PublishesAndClears ==
    lastRun.outcome = "compiled" =>
        /\ \A u \in Mentioned(lastRun) \cup {lastRun.uri} :
              Cardinality(PubsFor(lastRun, u)) = 1
        /\ \A i \in 1..Len(lastRun.pubs) :
              /\ lastRun.pubs[i].uri \in Mentioned(lastRun) \cup {lastRun.uri}
              /\ lastRun.pubs[i].uri \in Mentioned(lastRun)
                    => lastRun.pubs[i].diags # <<>>
              /\ lastRun.pubs[i].uri \notin Mentioned(lastRun)
                    => lastRun.pubs[i].diags = <<>>

\* the report names another file only: its problems are published, and an
\* empty list for the saved URI
C16_Witness ==
    /\ lastRun.outcome = "compiled"
    /\ lastRun.uri = LinkedUri
    /\ lastRun.report = [type |-> "compile-errors", errors |-> <<1>>]
    /\ lastRun.pubs = <<[uri |-> 1, diags |-> ProblemsOf(1)],
                        [uri |-> LinkedUri, diags |-> <<>>]>>

\* C17: a populated workspace-symbol cache has a timeout that clears it 5 s
\* after it was populated, it is never older than that, and no search is
\* answered from symbols built more than 5 s before.
C17_InvalidatedWithin5s ==
    /\ cachedSymbols # NoSymbols =>
          /\ cachedSymbols.builtAt + INVALIDATE_MS \in invalidations
          /\ now <= cachedSymbols.builtAt + INVALIDATE_MS
    /\ lastSearch.from = "cache" =>
          lastSearch.at <= lastSearch.symbols.builtAt + INVALIDATE_MS

\* a search was answered from the cache 4 s after the scan, and 5 s after
\* the scan the cache is empty
C17_Witness ==
    /\ lastSearch.from = "cache"
    /\ lastSearch.at = lastSearch.symbols.builtAt + 4 * SecondMs
    /\ now = lastSearch.symbols.builtAt + INVALIDATE_MS
    /\ cachedSymbols = NoSymbols

\* ------------------------------------------------------ document-symbol claim
\* a documentSymbol request for an open document whose text does not parse
\* has just been answered
SymbolsOfBrokenText ==
    /\ isRequest(cur') /\ cur'.method = "textDocument/documentSymbol"
    /\ initialized
    /\ ~cur'.threw
    /\ cur'.uri \in DOMAIN docs
    /\ ElmParse(docs[cur'.uri].text).kind = "failure"

\* C18: documentSymbol on an open document whose text fails to parse answers
\* with the last-good symbols of the URI (null when there are none) and
\* changes neither the last-good entry nor the AST cache; none is never
\* cached.
C18_LastGoodOnParseFailure ==
    /\ [][SymbolsOfBrokenText =>
            /\ sent' = <<Response(cur'.id, lastGoodSymbols[cur'.uri])>>
            /\ UNCHANGED <<lastGoodSymbols, entries>>]_vars
    /\ [](\A i \in 1..Len(entries) : entries[i].ast # None)

\* ----------------------------------------------------------- references claims
\* the symbol the answered request was about
identity == resolveSymbolAtPosition(cursor, FileAst(elmFile), ProjectOf(elmFile))

\* C19: every Location findReferences returns covers exactly the bare name of
\* the symbol: it lies on one line and its width is the length of the name,
\* so it holds no module qualifier, no (..) suffix and no argument of a
\* constructor pattern.
C19_LocationsCoverBareName ==
    searched =>
        \A i \in 1..Len(allLocations) :
            /\ allLocations[i].range.start.line = allLocations[i].range.end.line
            /\ allLocations[i].range.end.character
                   - allLocations[i].range.start.character
               = Len(identity.name)

\* C20: findReferences returns no unqualified use of the name that an
\* enclosing local binder (function argument, let binding, case-branch
\* pattern, lambda argument) binds.
C20_NoShadowedOccurrence ==
    searched =>
        \A i \in 1..Len(allLocations) :
            \A o \in OccurrencesIn(ProjectOf(elmFile)[allLocations[i].uri]) :
                o.local => o.start # allLocations[i].range.start

\* C21: with the cursor inside an explicit item of the module header's
\* exposing list, the symbol resolved is (currentModule, name, kind), kind
\* type for typeOrAlias and typeexpose items and value otherwise.
C21_HeaderItemResolved ==
    searched =>
        \A i \in 1..Len(FileAst(elmFile).exposingList) :
            LET exposed == FileAst(elmFile).exposingList[i]
            IN  positionInRange(cursor, exposed.range) =>
                    identity = SymbolIdentity(
                        toModuleName(FileAst(elmFile)), exposed.name,
                        IF exposed.type \in {"typeOrAlias", "typeexpose"}
                        THEN "type" ELSE "value")


\* ------------------------------------------------------- document-store claim
\* the step processes a notification of the method: the session is
\* initialized and the handler does not throw
Processes(method) ==
    /\ isNotification(cur') /\ cur'.method = method
    /\ initialized /\ ~cur'.threw

\* the store with the document of the processed notification put at its URI
WithDocument ==
    [u \in DOMAIN docs \cup {cur'.uri} |->
        IF u = cur'.uri THEN [text |-> cur'.text, version |-> cur'.version]
        ELSE docs[u]]

\* C24: the store holds a document for a URI exactly when the URI has been
\* opened and not closed since: didOpen creates it with the text and version
\* of the notification, didChange replaces the text and version of a
\* document that is open and creates none, didClose destroys it, and no
\* other step changes the store.
C24_StoreLifecycle ==
    [][CASE Processes("textDocument/didOpen") -> docs' = WithDocument
         [] Processes("textDocument/didChange") /\ cur'.text # NoText ->
                IF cur'.uri \in DOMAIN docs THEN docs' = WithDocument
                ELSE docs' = docs
         [] Processes("textDocument/didClose") ->
                docs' = [u \in DOMAIN docs \ {cur'.uri} |-> docs[u]]
         [] OTHER -> docs' = docs]_vars

\* ------------------------------------------------ workspace-symbol cache claim
\* C25: a workspace-symbol cache populated at time t stays in place until
\* t + 5 s: no timeout armed at an earlier population clears it.
C25_ClearedByOwnTimerOnly ==
    [][(cachedSymbols # NoSymbols /\ cachedSymbols' = NoSymbols)
           => now >= cachedSymbols.builtAt + INVALIDATE_MS]_vars

\* C26: the parse service is idle or busy and keeps at most one source
\* outstanding at a live backend: it is busy exactly while one posted source
\* is unanswered, calls wait (queued or in flight) only while it is busy, and
\* one source at a time is posted, from idle by parse or by the handler of
\* the answer to the previous one.
Outstanding == Len(inbox) + Len(chan)

C26_OneSourceOutstanding ==
    /\ [](state.tag \in {"idle", "busy"})
    /\ [](workerAlive =>
            /\ Outstanding <= 1
            /\ state.tag = "busy" <=> Outstanding = 1)
    /\ [](state.tag = "busy" => \A i \in 1..Len(state.queue) :
                                   calls[state.queue[i].resolve].result = Pending)
    /\ [][posted' # posted =>
            /\ Len(posted') = Len(posted) + 1
            /\ \/ state.tag = "idle"
               \/ /\ state.tag = "busy" /\ Len(state.queue) > 0
                  /\ chan # <<>> /\ Head(chan).kind # "error"
                  /\ chan' = Tail(chan)]_vars

\* busy with a call queued behind a source that was posted on the answer to
\* the one before it
C26_Witness ==
    /\ workerAlive
    /\ state.tag = "busy" /\ Len(state.queue) = 1
    /\ Len(posted) = 2
    /\ calls[1].how = "answer"
    /\ Outstanding = 1

\* C27: a parse call that resolved with an AST holds the AST of its own
\* source.
C27_OwnAst ==
    \A c \in 1..Len(calls) :
        calls[c].result \notin {Pending, None} =>
            calls[c].result = AstOf(calls[c].source)

\* an AST for the third call after the first was ended by an error and the
\* second by an answer for another source
C27_Witness ==
    /\ Len(calls) = 3
    /\ calls[1].how = "error"
    /\ calls[2].how = "answer" /\ calls[2].result = AstOf(calls[2].source)
    /\ calls[3].how = "answer" /\ calls[3].result = AstOf(calls[3].source)
    /\ calls[2].source # calls[3].source

\* C28: every request the router handles is answered with exactly one
\* response, which carries the request's id and is either a result or an
\* error: before initialize, after shutdown, for a method that is not served
\* and when the handler throws.
Responses == {i \in 1..Len(sent) : sent[i].kind \in {"response", "error"}}

C28_ExactlyOneResponse ==
    isRequest(cur) =>
        \E i \in Responses :
            /\ Responses = {i}
            /\ sent[i].id = cur.id
            /\ sent[i].kind = "error" <=> sent[i].code # 0
            /\ sent[i].kind = "error" => sent[i].result = None

\* a formatting request after shutdown, with elm-format missing: a
\* notification and then the one response
C28_Witness ==
    /\ shuttingDown
    /\ isRequest(cur) /\ cur.method = "textDocument/formatting"
    /\ Len(sent) = 2
    /\ sent[1].kind = "notification"
    /\ sent[2] = Response(cur.id, None)

\* C29: the runs for one URI do not overtake each other: the publications
\* for a saved URI are made in the order in which its runs started, so the
\* last one comes from the run started last.
C29_RunsPublishInStartOrder ==
    [][\A u \in DiagUris :
          published'[u] # published[u] => published'[u] > published[u]]_vars

\* C22: the Locations a references request returns differ pairwise in
\* (URI, start line, start column).
KeyOf(loc) == <<loc.uri, loc.range.start.line, loc.range.start.character>>

Before(p, q) ==
    p.line < q.line \/ (p.line = q.line /\ p.character <= q.character)

Overlap(r1, r2) == ~Before(r1.end, r2.start) /\ ~Before(r2.end, r1.start)

C30_EditsDisjoint ==
    workspaceEdit.kind = "edit" =>
        \A u \in DOMAIN workspaceEdit.changes :
            \A i, j \in 1..Len(workspaceEdit.changes[u]) :
                i # j => ~Overlap(workspaceEdit.changes[u][i].range,
                                  workspaceEdit.changes[u][j].range)
====
